---- MODULE Spec2Model ----
(***************************************************************************)
(* Model of the caching / indexing core of bc-symbols-mcp:                 *)
(*   - StreamingSymbolParser   (src/src/processors/streaming-parser.ts)    *)
(*   - LazyMemoryCache         (src/src/cache/lazy-cache.ts, 1..328)       *)
(*   - MemoryOptimizedCache    (src/src/cache/lazy-cache.ts, 329..799)     *)
(*   - ObjectIndex             (src/src/processors/app-extractor.ts)       *)
(*   - ProgressiveAppLoader    (src/src/types/bc-types.ts, 363..723) over  *)
(*     OptimizedAppExtractor   (src/src/processors/streaming-parser.ts)    *)
(*   - MemoryCache             (src/unnamed/part_008)                      *)
(* Each component is an object of its own; the variable "component" says   *)
(* which object a behaviour exercises.                                     *)
(*                                                                         *)
(* Time: "now" is the value Date.now() returns.  Memory figures are kept   *)
(* in hundredths of a megabyte, the precision the code rounds to.          *)
(***************************************************************************)
EXTENDS Integers, Sequences, FiniteSets, TLC

VARIABLES
  component,   \* which object this behaviour exercises
  now,         \* Date.now()
  heap,        \* the LazyAppEntry objects alive, by object identity
  lcache,      \* LazyMemoryCache.cache : filePath -> entry object (0: no property)
  lorder,      \* property order of LazyMemoryCache.cache (Object.entries order)
  accessLog,   \* LazyMemoryCache.accessLog
  reqs,        \* loadObject / loadObjectsByType calls suspended at an await
  ocfg,        \* MemoryOptimizedCache: evictionStrategy, compressionEnabled
  oapps,       \* MemoryOptimizedCache.cache.apps : filePath -> entry
  oorder,      \* property order of cache.apps
  parts,       \* the object partitions: name -> <<[key, data], ...>> in property order
  oix,         \* ObjectIndex: the primary map and the five secondary indexes
  indexing,    \* indexApp calls suspended at the await of indexObject
  loads,       \* ProgressiveAppLoader: loadAppProgressive calls and background tasks
  loadingTasks,     \* ProgressiveAppLoader.loadingTasks: the registered task ids
  loadingProgress,  \* ProgressiveAppLoader.loadingProgress: loadingId -> last report
  history,     \* what the loader reported, emitted and requested, in order
  mcache,      \* MemoryCache.cache : filePath -> entry
  morder,      \* property order of MemoryCache.cache
  mMaxAge,     \* MemoryCache.maxAge
  ret          \* the last completed call and what it returned

lazyVars == <<heap, lcache, lorder, accessLog, reqs>>
optVars == <<ocfg, oapps, oorder, parts>>
indexVars == <<oix, indexing>>
memVars == <<mcache, morder, mMaxAge>>
loaderVars == <<loads, loadingTasks, loadingProgress, history>>
vars == <<component, now, lazyVars, optVars, indexVars, loaderVars, memVars,
          ret>>

-----------------------------------------------------------------------------
(* Bounds of the model *)

MaxTime == 2          \* the clock runs 0..MaxTime
MaxRequests == 2      \* load requests counted by accessLog
MaxInFlight == 2      \* load requests suspended at the same time
MaxAccess == 1        \* accessCount values followed per entry

-----------------------------------------------------------------------------
(* Generic helpers *)

Range(s) == {s[i] : i \in DOMAIN s}

RECURSIVE SumSeq(_)
SumSeq(s) == IF s = <<>> THEN 0 ELSE Head(s) + SumSeq(Tail(s))

RemoveFromSeq(s, x) == SelectSeq(s, LAMBDA y : y # x)

\* s with x appended unless it is already there (a Map / object key keeps
\* the place of its first insertion)
AppendNew(s, x) == IF x \in Range(s) THEN s ELSE Append(s, x)

\* Math.round(totalBytes / (1024*1024) * 100) / 100, in hundredths of a MB
RoundMB(totalBytes) == (2 * 100 * totalBytes + 1048576) \div (2 * 1048576)

-----------------------------------------------------------------------------
(* Inputs *)

Locators == {"L1", "L2"}
Hashes == {"H1", "H2"}

\* a BCApp handed to a cache: its fileHash, the length of its JSON text
\* without the symbols, and the number of namespaces in its symbols
Apps == [fileHash : Hashes, size : {8000}, namespaces : {0, 1}]

\* JSON.stringify(app).length
AppJsonLen(app) == app.size + 50 + 3000 * app.namespaces

SmallApp == [fileHash |-> "H1", size |-> 100, namespaces |-> 0]

\* the child-category arrays buildObjectIndex reads, in its order
ArrayKeys == <<"Tables", "Codeunits", "Pages", "PageExtensions", "Reports",
               "XmlPorts", "Queries", "EnumTypes">>

NoArrays == [k \in Range(ArrayKeys) |-> <<>>]

\* one element of a child array: an object with Id and Name (0 / "" when the
\* property is missing), or something that is not an object
Child(id, name) == [isObject |-> TRUE, Id |-> id, Name |-> name]
NotAnObject == [isObject |-> FALSE, Id |-> 0, Name |-> ""]

\* decoded documents: the buffer length, whether JSON.parse accepts it, and
\* its child arrays
DocTwoTables ==
  [bytes |-> 10000, malformed |-> FALSE,
   arrays |-> [NoArrays EXCEPT !["Tables"] =
                 <<Child(18, "Customer"), Child(23, "Vendor")>>]]
DocMixed ==
  [bytes |-> 20000, malformed |-> FALSE,
   arrays |-> [NoArrays EXCEPT !["Tables"] = <<Child(18, "Customer"), NotAnObject>>,
                               !["Pages"] = <<Child(21, "Customer")>>]]
DocMalformed ==
  [bytes |-> 30000, malformed |-> TRUE, arrays |-> NoArrays]

Docs == {DocTwoTables, DocMixed, DocMalformed}

\* keys a caller may ask for: children of the documents and one of no document
RequestKeys == {<<"table", 18, "Customer">>, <<"table", 23, "Vendor">>,
                <<"page", 21, "Customer">>, <<"table", 99, "Nothing">>}
RequestTypes == {"table", "page"}

-----------------------------------------------------------------------------
(* Values a call returns *)

Null == [kind |-> "null"]
EmptyObject == [kind |-> "empty"]                     \* {}
MetadataValue(k) == [kind |-> "meta", key |-> k]     \* the descriptor object
ListValue(items) == [kind |-> "list", items |-> items]
AppValue(app) == [kind |-> "app", app |-> app]
BoolValue(b) == [kind |-> "bool", b |-> b]
StatsValue(t, l) == [kind |-> "stats", total |-> t, loaded |-> l]

-----------------------------------------------------------------------------
(* StreamingSymbolParser *)

\* getObjectTypeFromPath: the typeMap of the arrays buildObjectIndex reads
getObjectTypeFromPath(arrayKey) ==
  CASE arrayKey = "Tables" -> "table"
    [] arrayKey = "Codeunits" -> "codeunit"
    [] arrayKey = "Pages" -> "page"
    [] arrayKey = "PageExtensions" -> "pageextension"
    [] arrayKey = "Reports" -> "report"
    [] arrayKey = "XmlPorts" -> "xmlport"
    [] arrayKey = "Queries" -> "query"
    [] arrayKey = "EnumTypes" -> "enum"
    [] OTHER -> "unknown"

\* the symbolIndex of a new parser (constructor)
NewSymbolIndex ==
  [keyOrder |-> <<>>, loaded |-> {}, totalObjects |-> 0, loadedObjects |-> 0,
   derived |-> <<>>]

\* createObjectMetadata yields null for a value that is not an object;
\* otherwise the descriptor, known here by its index key
createObjectMetadata(value, objectType) ==
  IF ~value.isObject THEN Null
  ELSE MetadataValue(<<objectType, value.Id, value.Name>>)

\* the inner loop of buildObjectIndex over one child array
RECURSIVE IndexArray(_, _, _)
IndexArray(idx, objectType, items) ==
  IF items = <<>> THEN idx
  ELSE LET metadata == createObjectMetadata(Head(items), objectType)
           next == IF metadata = Null THEN idx
                   ELSE [idx EXCEPT
                           !.keyOrder = AppendNew(@, metadata.key),
                           !.totalObjects = @ + 1]
       IN IndexArray(next, objectType, Tail(items))

RECURSIVE IndexArrays(_, _, _)
IndexArrays(idx, doc, arrayKeys) ==
  IF arrayKeys = <<>> THEN idx
  ELSE IndexArrays(
         IndexArray(idx, getObjectTypeFromPath(Head(arrayKeys)),
                    doc.arrays[Head(arrayKeys)]),
         doc, Tail(arrayKeys))

\* an indexer whose fallback leaves one descriptor behind
buildObjectIndexLeaky(doc) ==
  LET idx == IndexArrays(NewSymbolIndex,
                         IF doc.malformed
                         THEN [doc EXCEPT !.arrays["Tables"] = <<Child(0, "")>>]
                         ELSE doc,
                         ArrayKeys)
  IN [idx EXCEPT !.derived = [k \in Range(idx.keyOrder) |-> 0]]

\* parseSymbolsProgressive / buildObjectIndex on a new parser; JSON.parse
\* throws on a malformed buffer before anything is indexed
buildObjectIndex(doc) ==
  IF doc.malformed THEN [NewSymbolIndex EXCEPT !.totalObjects = 0]
  ELSE LET idx == IndexArrays(NewSymbolIndex, doc, ArrayKeys)
       IN [idx EXCEPT !.derived = [k \in Range(idx.keyOrder) |-> 0]]

\* the keys of the index whose descriptor has the given objectType, in Map order
KeysOfType(idx, objectType) ==
  SelectSeq(idx.keyOrder, LAMBDA k : k[1] = objectType)

\* an optional argument left undefined
UndefinedId == -1
UndefinedName == "<undefined>"

\* StreamingSymbolParser.getObjectMetadata
parserGetObjectMetadata(idx, objectType, objectId, objectName) ==
  SelectSeq(idx.keyOrder,
            LAMBDA k : /\ k[1] = objectType
                       /\ (objectId = UndefinedId \/ k[2] = objectId)
                       /\ (objectName = UndefinedName \/ k[3] = objectName))

\* StreamingSymbolParser.getLoadingStats (total, loaded)
parserGetLoadingStats(idx) == StatsValue(idx.totalObjects, idx.loadedObjects)

\* the continuation of StreamingSymbolParser.loadObject after
\* "await parseObjectAtOffset": the descriptor is flagged and counted
parserMarkLoaded(idx, k) ==
  [idx EXCEPT !.loaded = @ \cup {k}, !.loadedObjects = @ + 1]

\* the call of parseObjectAtOffset, counted per key
parserDerive(idx, k) == [idx EXCEPT !.derived[k] = @ + 1]

-----------------------------------------------------------------------------
(* LazyMemoryCache *)

\* constructor arguments: maxAge in clock ticks, maxMemoryMB in hundredths
LazyMaxAge == 1
LazyMaxMemoryMB == 1

\* identities for the entry objects that can be alive at once: one per
\* filePath, one per suspended call that still holds a replaced or evicted
\* entry, and the one being created
EntryIds == 1 .. (Cardinality(Locators) + MaxInFlight + 1)

NoEntry == [present |-> FALSE]

\* the entry object stored at filePath, NoEntry when the property is missing
LEntry(filePath) == IF lcache[filePath] = 0 THEN NoEntry ELSE heap[lcache[filePath]]

\* the objectCache key of all objects of a type, `${objectType}:all`
AllKey(objectType) == <<objectType, -1, "all">>

\* a fault: the value is not stored
DropKey(oc, k, v) == oc

\* obj[key] = value on an objectCache
PutKey(oc, k, v) == [x \in (DOMAIN oc) \cup {k} |-> IF x = k THEN v ELSE oc[x]]

\* JSON.stringify(value).length of a cached value: {} is 2 characters, a
\* descriptor about 100, an array its brackets, items and commas
RECURSIVE JsonLen(_)
JsonLen(v) ==
  CASE v.kind = "empty" -> 2
    [] v.kind = "meta" -> 100
    [] v.kind = "list" ->
         2 + SumSeq([i \in DOMAIN v.items |-> JsonLen(v.items[i])])
           + (IF Len(v.items) > 1 THEN Len(v.items) - 1 ELSE 0)
    [] OTHER -> 4

RECURSIVE SumOverKeys(_, _)
SumOverKeys(oc, keys) ==
  IF keys = {} THEN 0
  ELSE LET k == CHOOSE x \in keys : TRUE
       IN 20 + 1 + JsonLen(oc[k]) + SumOverKeys(oc, keys \ {k})

\* JSON.stringify(entry.objectCache).length
ObjectCacheJsonLen(oc) ==
  IF DOMAIN oc = {} THEN 2
  ELSE 2 + SumOverKeys(oc, DOMAIN oc) + (Cardinality(DOMAIN oc) - 1)

\* the bytes calculateMemoryUsage adds for one entry
EntryBytes(e) == e.bytes + AppJsonLen(e.appData) + ObjectCacheJsonLen(e.objectCache)

\* calculateMemoryUsage over a cache given as (hp, paths, order)
calculateMemoryUsage(hp, paths, order) ==
  RoundMB(SumSeq([i \in DOMAIN order |-> EntryBytes(hp[paths[order[i]]])]))

\* a fault: isEntryValid without its age test
isEntryValidNoTTL(entry, currentFileHash, t) ==
  entry.fileHash = currentFileHash

\* isEntryValid with Date.now() = t
isEntryValid(entry, currentFileHash, t) ==
  IF t - entry.timestamp > LazyMaxAge THEN FALSE
  ELSE IF entry.fileHash # currentFileHash THEN FALSE
  ELSE TRUE

\* a fault: the scan stops at the first entry accessed before oldestTime
RECURSIVE AnyOlderEntry(_, _, _, _, _)
AnyOlderEntry(hp, paths, order, oldestTime, oldestEntry) ==
  IF order = <<>> THEN oldestEntry
  ELSE IF hp[paths[Head(order)]].lastAccessed < oldestTime THEN Head(order)
  ELSE AnyOlderEntry(hp, paths, Tail(order), oldestTime, oldestEntry)

\* the scan of enforceMemoryLimits: the first entry, in property order, with
\* the least lastAccessed below oldestTime; oldestEntry when there is none
RECURSIVE OldestEntry(_, _, _, _, _)
OldestEntry(hp, paths, order, oldestTime, oldestEntry) ==
  IF order = <<>> THEN oldestEntry
  ELSE LET e == hp[paths[Head(order)]]
       IN IF e.lastAccessed < oldestTime
          THEN OldestEntry(hp, paths, Tail(order), e.lastAccessed, Head(order))
          ELSE OldestEntry(hp, paths, Tail(order), oldestTime, oldestEntry)

\* the least lastAccessed among the entries present (what a victim is
\* compared with)
MinLastAccessed(hp, paths, order) ==
  CHOOSE m \in {hp[paths[order[i]]].lastAccessed : i \in DOMAIN order} :
    \A i \in DOMAIN order : m <= hp[paths[order[i]]].lastAccessed

Victim(hp, paths, order, filePath) ==
  [path |-> filePath, lastAccessed |-> hp[paths[filePath]].lastAccessed,
   oldest |-> MinLastAccessed(hp, paths, order),
   usage |-> calculateMemoryUsage(hp, paths, order)]

\* enforceMemoryLimits with Date.now() = t: the paths left, the order left
\* and the victims in the order of their removal
RECURSIVE enforceMemoryLimits(_, _, _, _, _)
enforceMemoryLimits(hp, paths, order, t, victims) ==
  IF calculateMemoryUsage(hp, paths, order) > LazyMaxMemoryMB
  THEN LET oldestEntry == OldestEntry(hp, paths, order, t, "")
       IN IF oldestEntry # ""
          THEN enforceMemoryLimits(hp, [paths EXCEPT ![oldestEntry] = 0],
                                   RemoveFromSeq(order, oldestEntry), t,
                                   Append(victims,
                                          Victim(hp, paths, order, oldestEntry)))
          ELSE [paths |-> paths, order |-> order, victims |-> victims]
  ELSE [paths |-> paths, order |-> order, victims |-> victims]

\* what a call found at filePath when it was made
PreOf(filePath, currentFileHash) ==
  LET e == LEntry(filePath)
  IN [present |-> e.present,
      expired |-> e.present /\ now - e.timestamp > LazyMaxAge,
      mismatch |-> e.present /\ e.fileHash # currentFileHash]

NoPre == [present |-> FALSE, expired |-> FALSE, mismatch |-> FALSE]
NoKey == <<"", 0, "">>

\* a completed call: its arguments, what it returned, what it found (pre), the
\* entries it evicted (victims) and the entry object it worked on (ref)
RetRec(op, filePath, hash, k, val, pre, victims) ==
  [op |-> op, path |-> filePath, hash |-> hash, key |-> k, val |-> val,
   pre |-> pre, victims |-> victims, ref |-> 0]

RetOn(ref, op, filePath, hash, k, val, pre) ==
  [op |-> op, path |-> filePath, hash |-> hash, key |-> k, val |-> val,
   pre |-> pre, victims |-> <<>>, ref |-> ref]

NoRet == RetRec("none", "", "", NoKey, Null, NoPre, <<>>)

\* the entry objects still referenced: by the cache or by a suspended call
Referenced(paths, rq) ==
  {paths[l] : l \in Locators} \cup {rq[i].ref : i \in DOMAIN rq}

\* the heap without the objects nothing references any more
Collect(hp, paths, rq) ==
  [i \in EntryIds |-> IF i \in Referenced(paths, rq) THEN hp[i] ELSE NoEntry]

NewId == CHOOSE i \in EntryIds :
           /\ ~heap[i].present
           /\ \A j \in EntryIds : j < i => heap[j].present

RemoveAt(s, i) == [j \in 1 .. (Len(s) - 1) |-> IF j < i THEN s[j] ELSE s[j + 1]]

\* entry.lastAccessed = Date.now()
Touch(e) == [e EXCEPT !.lastAccessed = now]

\* the calls accessLog has counted or will count
Requests == accessLog.hits + accessLog.misses + Len(reqs)

Hit == [accessLog EXCEPT !.hits = @ + 1]
Miss == [accessLog EXCEPT !.misses = @ + 1]

-----------------------------------------------------------------------------
(* LazyMemoryCache: the operations *)

\* the clock advances
Tick ==
  /\ now < MaxTime
  /\ now' = now + 1
  /\ UNCHANGED <<component, memVars, loaderVars, indexVars, lazyVars, optVars, ret>>

\* setLazy.  The parser is built on an object no one else sees, so the await
\* before the entry is stored changes nothing; the entry is stored and the
\* limits are enforced in one synchronous stretch.  Date.now() in
\* enforceMemoryLimits reads tEnf, the clock of the store or one tick later.
setLazy(filePath, app, symbolsBuffer, tEnf) ==
  /\ component = "lazy"
  /\ tEnf <= MaxTime
  /\ LET id == NewId
         entry == [present |-> TRUE, appData |-> app,
                   bytes |-> symbolsBuffer.bytes,
                   parser |-> buildObjectIndex(symbolsBuffer),
                   objectCache |-> <<>>, timestamp |-> now,
                   fileHash |-> app.fileHash, accessCount |-> 0,
                   lastAccessed |-> now]
         hp == [heap EXCEPT ![id] = entry]
         r == enforceMemoryLimits(hp, [lcache EXCEPT ![filePath] = id],
                                  AppendNew(lorder, filePath), tEnf, <<>>)
     IN /\ heap' = Collect(hp, r.paths, reqs)
        /\ lcache' = r.paths
        /\ lorder' = r.order
        /\ ret' = RetRec("setLazy", filePath, app.fileHash, NoKey, Null,
                         NoPre, r.victims)
  /\ now' = tEnf
  /\ UNCHANGED <<component, memVars, loaderVars, indexVars, optVars, accessLog, reqs>>

\* a read that stamps the entry without counting the access
AccessedUncounted(e) == [e EXCEPT !.lastAccessed = now]

\* entry.accessCount++; entry.lastAccessed = Date.now()
Accessed(e) == [e EXCEPT !.accessCount = @ + 1, !.lastAccessed = now]

getAppMetadata(filePath, currentFileHash) ==
  /\ component = "lazy"
  /\ LET entry == LEntry(filePath)
     IN IF ~entry.present \/ ~isEntryValid(entry, currentFileHash, now)
        THEN /\ ret' = RetRec("getAppMetadata", filePath, currentFileHash,
                              NoKey, Null, PreOf(filePath, currentFileHash), <<>>)
             /\ UNCHANGED heap
        ELSE /\ entry.accessCount < MaxAccess
             /\ heap' = [heap EXCEPT ![lcache[filePath]] = Accessed(entry)]
             /\ ret' = RetRec("getAppMetadata", filePath, currentFileHash,
                              NoKey, AppValue(entry.appData),
                              PreOf(filePath, currentFileHash), <<>>)
  /\ UNCHANGED <<component, memVars, loaderVars, indexVars, optVars, now, lcache, lorder, accessLog, reqs>>

has(filePath, currentFileHash) ==
  /\ component = "lazy"
  /\ LET entry == LEntry(filePath)
     IN ret' = RetRec("has", filePath, currentFileHash, NoKey,
                      BoolValue(IF entry.present
                                THEN isEntryValid(entry, currentFileHash, now)
                                ELSE FALSE),
                      PreOf(filePath, currentFileHash), <<>>)
  /\ UNCHANGED <<component, memVars, loaderVars, indexVars, now, lazyVars, optVars>>

getObjectMetadata(filePath, currentFileHash, objectType, objectId, objectName) ==
  /\ component = "lazy"
  /\ LET entry == LEntry(filePath)
         k == <<objectType, objectId, objectName>>
     IN IF ~entry.present \/ ~isEntryValid(entry, currentFileHash, now)
        THEN /\ ret' = RetRec("getObjectMetadata", filePath, currentFileHash, k,
                              ListValue(<<>>),
                              PreOf(filePath, currentFileHash), <<>>)
             /\ UNCHANGED heap
        ELSE /\ heap' = [heap EXCEPT ![lcache[filePath]] = Touch(entry)]
             /\ ret' = RetRec("getObjectMetadata", filePath, currentFileHash, k,
                              ListValue(parserGetObjectMetadata(
                                entry.parser, objectType, objectId, objectName)),
                              PreOf(filePath, currentFileHash), <<>>)
  /\ UNCHANGED <<component, memVars, loaderVars, indexVars, optVars, now, lcache, lorder, accessLog, reqs>>

getLoadingStats(filePath, currentFileHash) ==
  /\ component = "lazy"
  /\ LET entry == LEntry(filePath)
     IN ret' = RetRec("getLoadingStats", filePath, currentFileHash, NoKey,
                      IF ~entry.present \/ ~isEntryValid(entry, currentFileHash, now)
                      THEN Null ELSE parserGetLoadingStats(entry.parser),
                      PreOf(filePath, currentFileHash), <<>>)
  /\ UNCHANGED <<component, memVars, loaderVars, indexVars, now, lazyVars, optVars>>

\* Math.round(cacheHitRate * 100) / 100 of getCacheStats, in hundredths of a
\* percent
cacheHitRate(log) ==
  LET totalRequests == log.hits + log.misses
  IN IF totalRequests > 0
     THEN (2 * 10000 * log.hits + totalRequests) \div (2 * totalRequests)
     ELSE 0

\* getCacheStats: totalObjects counts the keys of every objectCache,
\* loadedObjects adds up getLoadingStats().loaded of every parser
getCacheStats ==
  /\ component = "lazy"
  /\ ret' = RetRec("getCacheStats", "", "", NoKey,
                   [kind |-> "cacheStats",
                    totalApps |-> Len(lorder),
                    totalObjects |->
                      SumSeq([i \in DOMAIN lorder |->
                                Cardinality(DOMAIN LEntry(lorder[i]).objectCache)]),
                    loadedObjects |->
                      SumSeq([i \in DOMAIN lorder |->
                                parserGetLoadingStats(
                                  LEntry(lorder[i]).parser).loaded]),
                    memoryUsage |-> calculateMemoryUsage(heap, lcache, lorder),
                    cacheHitRate |-> cacheHitRate(accessLog)],
                   NoPre, <<>>)
  /\ UNCHANGED <<component, memVars, loaderVars, indexVars, now, lazyVars, optVars>>

\* a suspended loadObject / loadObjectsByType call: the entry object it
\* holds (ref), where it waits (phase), the key whose derivation is awaited
\* (cur), the value it was handed (val) and, for loadObjectsByType, the keys
\* still to load (todo) and the objects collected (acc)
ReqRec(op, filePath, hash, k, ref, phase, cur, val, todo, acc, pre) ==
  [op |-> op, path |-> filePath, hash |-> hash, key |-> k, ref |-> ref,
   phase |-> phase, cur |-> cur, val |-> val, todo |-> todo, acc |-> acc,
   pre |-> pre]

\* a parser that hands out the placeholder for a key it has no descriptor of
ParserLoadLenient(hp, ref, k) ==
  [phase |-> "got",
   val |-> IF k \in hp[ref].parser.loaded THEN MetadataValue(k)
           ELSE EmptyObject,
   heap |-> hp]

\* the synchronous start of StreamingSymbolParser.loadObject(k) on the entry
\* object hp[ref]: the phase the caller is left in, the value a loaded
\* descriptor yields at once, and the heap (parseObjectAtOffset is called
\* before the first await)
ParserLoadStart(hp, ref, k) ==
  LET idx == hp[ref].parser
  IN IF k \notin Range(idx.keyOrder)
     THEN [phase |-> "catch", val |-> Null, heap |-> hp]
     ELSE IF k \in idx.loaded
     THEN [phase |-> "got", val |-> MetadataValue(k), heap |-> hp]
     ELSE [phase |-> "parse", val |-> Null,
           heap |-> [hp EXCEPT ![ref].parser = parserDerive(idx, k)]]

\* loadObject up to its await (or to its return, when it does not await)
loadObject(filePath, currentFileHash, k) ==
  /\ component = "lazy"
  /\ Requests < MaxRequests
  /\ LET entry == LEntry(filePath)
         pre == PreOf(filePath, currentFileHash)
     IN IF ~entry.present \/ ~isEntryValid(entry, currentFileHash, now)
        THEN /\ accessLog' = Miss
             /\ ret' = RetRec("loadObject", filePath, currentFileHash, k, Null,
                              pre, <<>>)
             /\ UNCHANGED <<heap, reqs>>
        ELSE IF k \in DOMAIN entry.objectCache
        THEN /\ accessLog' = Hit
             /\ heap' = [heap EXCEPT ![lcache[filePath]] = Touch(entry)]
             /\ ret' = RetOn(lcache[filePath], "loadObject", filePath,
                             currentFileHash, k, entry.objectCache[k], pre)
             /\ UNCHANGED reqs
        ELSE /\ Len(reqs) < MaxInFlight
             /\ LET st == ParserLoadStart(heap, lcache[filePath], k)
                IN /\ heap' = st.heap
                   /\ reqs' = Append(reqs,
                        ReqRec("loadObject", filePath, currentFileHash, k,
                               lcache[filePath], st.phase, k, st.val, <<>>,
                               <<>>, pre))
             /\ ret' = RetRec("suspended", filePath, currentFileHash, k, Null,
                              pre, <<>>)
             /\ UNCHANGED accessLog
  /\ UNCHANGED <<component, memVars, loaderVars, indexVars, optVars, now, lcache, lorder>>

\* the start of the next item of StreamingSymbolParser.loadObjectsByType, or
\* its return when no key is left
NextItem(hp, r, todo, acc) ==
  IF todo = <<>>
  THEN [req |-> [r EXCEPT !.phase = "listdone", !.todo = <<>>, !.acc = acc],
        heap |-> hp]
  ELSE LET st == ParserLoadStart(hp, r.ref, Head(todo))
       IN [req |-> [r EXCEPT !.phase = st.phase, !.cur = Head(todo),
                             !.val = st.val, !.todo = Tail(todo), !.acc = acc],
           heap |-> st.heap]

\* loadObjectsByType up to its await (or to its return)
loadObjectsByType(filePath, currentFileHash, objectType) ==
  /\ component = "lazy"
  /\ Requests < MaxRequests
  /\ LET entry == LEntry(filePath)
         pre == PreOf(filePath, currentFileHash)
         cacheKey == AllKey(objectType)
     IN IF ~entry.present \/ ~isEntryValid(entry, currentFileHash, now)
        THEN /\ accessLog' = Miss
             /\ ret' = RetRec("loadObjectsByType", filePath, currentFileHash,
                              cacheKey, ListValue(<<>>), pre, <<>>)
             /\ UNCHANGED <<heap, reqs>>
        ELSE IF cacheKey \in DOMAIN entry.objectCache
        THEN /\ accessLog' = Hit
             /\ heap' = [heap EXCEPT ![lcache[filePath]] = Touch(entry)]
             /\ ret' = RetRec("loadObjectsByType", filePath, currentFileHash,
                              cacheKey, entry.objectCache[cacheKey], pre, <<>>)
             /\ UNCHANGED reqs
        ELSE /\ Len(reqs) < MaxInFlight
             /\ LET r == ReqRec("loadObjectsByType", filePath, currentFileHash,
                                cacheKey, lcache[filePath], "start", cacheKey,
                                Null, <<>>, <<>>, pre)
                    st == NextItem(heap, r, KeysOfType(entry.parser, objectType),
                                   <<>>)
                IN /\ heap' = st.heap
                   /\ reqs' = Append(reqs, st.req)
             /\ ret' = RetRec("suspended", filePath, currentFileHash, cacheKey,
                              Null, pre, <<>>)
             /\ UNCHANGED accessLog
  /\ UNCHANGED <<component, memVars, loaderVars, indexVars, optVars, now, lcache, lorder>>

\* StreamingSymbolParser.loadObject resumes after "await parseObjectAtOffset":
\* it flags and counts the descriptor and resolves with the placeholder {}
ResumeParser(i) ==
  /\ component = "lazy"
  /\ i \in DOMAIN reqs
  /\ reqs[i].phase = "parse"
  /\ LET r == reqs[i]
     IN /\ heap' = [heap EXCEPT ![r.ref].parser = parserMarkLoaded(@, r.cur)]
        /\ reqs' = [reqs EXCEPT ![i] = [r EXCEPT !.phase = "got",
                                                 !.val = EmptyObject]]
  /\ ret' = RetRec("resumed", reqs[i].path, reqs[i].hash, reqs[i].key, Null,
                   reqs[i].pre, <<>>)
  /\ UNCHANGED <<component, memVars, loaderVars, indexVars, optVars, now, lcache, lorder, accessLog>>

\* loadObject resumes after "await streamingParser.loadObject": it stores the
\* object in the objectCache of the entry it holds, or catches the rejection
ResumeLoadObject(i) ==
  /\ component = "lazy"
  /\ i \in DOMAIN reqs
  /\ reqs[i].op = "loadObject"
  /\ reqs[i].phase \in {"got", "catch"}
  /\ LET r == reqs[i]
         rest == RemoveAt(reqs, i)
     IN /\ IF r.phase = "got"
           THEN /\ heap' = Collect(
                     [heap EXCEPT ![r.ref] =
                        Touch([@ EXCEPT !.objectCache = PutKey(@, r.key, r.val)])],
                     lcache, rest)
                /\ ret' = RetOn(r.ref, "loadObject", r.path, r.hash, r.key,
                                r.val, r.pre)
           ELSE /\ heap' = Collect(heap, lcache, rest)
                /\ ret' = RetOn(r.ref, "loadObject", r.path, r.hash, r.key,
                                Null, r.pre)
        /\ reqs' = rest
        /\ accessLog' = Miss
  /\ UNCHANGED <<component, memVars, loaderVars, indexVars, optVars, now, lcache, lorder>>

\* StreamingSymbolParser.loadObjectsByType resumes after "await
\* this.loadObject": it pushes the object and starts the next key
ResumeNextItem(i) ==
  /\ component = "lazy"
  /\ i \in DOMAIN reqs
  /\ reqs[i].op = "loadObjectsByType"
  /\ reqs[i].phase = "got"
  /\ LET r == reqs[i]
         st == NextItem(heap, r, r.todo, Append(r.acc, r.val))
     IN /\ heap' = st.heap
        /\ reqs' = [reqs EXCEPT ![i] = st.req]
  /\ ret' = RetRec("resumed", reqs[i].path, reqs[i].hash, reqs[i].key, Null,
                   reqs[i].pre, <<>>)
  /\ UNCHANGED <<component, memVars, loaderVars, indexVars, optVars, now, lcache, lorder, accessLog>>

\* loadObjectsByType resumes after "await streamingParser.loadObjectsByType"
ResumeLoadObjectsByType(i) ==
  /\ component = "lazy"
  /\ i \in DOMAIN reqs
  /\ reqs[i].op = "loadObjectsByType"
  /\ reqs[i].phase = "listdone"
  /\ LET r == reqs[i]
         rest == RemoveAt(reqs, i)
         objects == ListValue(r.acc)
     IN /\ heap' = Collect(
               [heap EXCEPT ![r.ref] =
                  Touch([@ EXCEPT !.objectCache = PutKey(@, r.key, objects)])],
               lcache, rest)
        /\ ret' = RetRec("loadObjectsByType", r.path, r.hash, r.key, objects,
                         r.pre, <<>>)
        /\ reqs' = rest
        /\ accessLog' = Miss
  /\ UNCHANGED <<component, memVars, loaderVars, indexVars, optVars, now, lcache, lorder>>

\* an age test that already fails at maxAge
AgedOut(timestamp, t, maxAge) == t - timestamp >= maxAge

\* the age test of cleanup, with Date.now() = t
TooOld(timestamp, t, maxAge) == t - timestamp > maxAge

\* cleanup: every entry older than maxAge is deleted; returns the count
cleanup ==
  /\ component = "lazy"
  /\ LET expired == {l \in Range(lorder) :
                       TooOld(LEntry(l).timestamp, now, LazyMaxAge)}
         paths == [l \in Locators |-> IF l \in expired THEN 0 ELSE lcache[l]]
     IN /\ lcache' = paths
        /\ lorder' = SelectSeq(lorder, LAMBDA l : l \notin expired)
        /\ heap' = Collect(heap, paths, reqs)
        /\ ret' = RetRec("cleanup", "", "", NoKey,
                         [kind |-> "count", n |-> Cardinality(expired)],
                         NoPre, <<>>)
  /\ UNCHANGED <<component, memVars, loaderVars, indexVars, optVars, now, accessLog, reqs>>

\* getCachedPaths: Object.keys(this.cache)
getCachedPaths ==
  /\ component = "lazy"
  /\ ret' = RetRec("getCachedPaths", "", "", NoKey, ListValue(lorder), NoPre, <<>>)
  /\ UNCHANGED <<component, memVars, loaderVars, indexVars, now, lazyVars, optVars>>

\* the ObjectIndex as constructed
EmptyIndex ==
  [index |-> <<>>, typeIndex |-> <<>>, nameIndex |-> <<>>, appIndex |-> <<>>,
   keywordIndex |-> <<>>, dependencyIndex |-> <<>>]

IndexIdle == oix = EmptyIndex /\ indexing = <<>>

\* the ProgressiveAppLoader as constructed
LoaderIdle ==
  /\ loads = <<>>
  /\ loadingTasks = <<>>
  /\ loadingProgress = <<>>
  /\ history = <<>>

\* the MemoryCache as constructed: new MemoryCache(maxAgeMinutes)
MemMaxAge == 1
MemIdle == mcache = [l \in Locators |-> NoEntry] /\ morder = <<>> /\ mMaxAge = MemMaxAge

\* the MemoryOptimizedCache of a behaviour that exercises another object
OptIdle ==
  /\ ocfg = [strategy |-> "lru", compression |-> TRUE]
  /\ oapps = [l \in Locators |-> NoEntry]
  /\ oorder = <<>>
  /\ parts = <<>>

LazyInit ==
  /\ component = "lazy"
  /\ OptIdle
  /\ IndexIdle
  /\ LoaderIdle
  /\ MemIdle
  /\ now = 0
  /\ heap = [i \in EntryIds |-> NoEntry]
  /\ lcache = [l \in Locators |-> 0]
  /\ lorder = <<>>
  /\ accessLog = [hits |-> 0, misses |-> 0]
  /\ reqs = <<>>
  /\ ret = NoRet

\* the steps of the calls suspended at an await
LazyResume ==
  \/ \E i \in 1 .. MaxInFlight : ResumeParser(i)
  \/ \E i \in 1 .. MaxInFlight : ResumeLoadObject(i)
  \/ \E i \in 1 .. MaxInFlight : ResumeNextItem(i)
  \/ \E i \in 1 .. MaxInFlight : ResumeLoadObjectsByType(i)

\* admissions and metadata reads of two containers: the eviction side
LazyEvictNext ==
  \/ \E l \in Locators, doc \in {DocTwoTables, DocMixed}, d \in {0, 1} :
       setLazy(l, SmallApp, doc, now + d)
  \/ \E l \in Locators : getAppMetadata(l, "H1")
  \/ cleanup

-----------------------------------------------------------------------------
(* MemoryOptimizedCache *)

\* constructor arguments: maxAge in clock ticks, maxMemoryMB in hundredths
OptMaxAge == 1
OptMaxMemoryMB == 1

\* the object partitions in the property order of this.cache, after "apps"
PartitionNames == <<"tables", "codeunits", "pages", "pageExtensions",
                    "reports", "enums", "others">>

EmptyPartitions == [p \in Range(PartitionNames) |-> <<>>]

\* String.prototype.toLowerCase on the strings that reach it
toLowerCase(str) ==
  CASE str = "Table" -> "table"
    [] str = "pageExtensions" -> "pageextensions"
    [] OTHER -> str

\* getPartitionForType: the name of the partition the switch returns
getPartitionForType(objectType) ==
  LET t == toLowerCase(objectType)
  IN CASE t \in {"table", "tableextension"} -> "tables"
       [] t = "codeunit" -> "codeunits"
       [] t = "page" -> "pages"
       [] t = "pageextension" -> "pageExtensions"
       [] t \in {"report", "reportextension"} -> "reports"
       [] t = "enum" -> "enums"
       [] OTHER -> "others"

\* an object of a partition: the length of its JSON text without the note
\* property, and a note property that is text, null, an empty array or absent
Object(size, note) == [size |-> size, note |-> note]

\* optimizeObjectsData: null properties and empty arrays are dropped
optimizeObjectsData(objects) ==
  [i \in DOMAIN objects |->
     IF objects[i].note \in {"null", "emptyArray"}
     THEN [objects[i] EXCEPT !.note = "absent"]
     ELSE objects[i]]

\* JSON.stringify(object).length
ObjectJsonLen(o) ==
  o.size + (CASE o.note = "text" -> 14
              [] o.note = "null" -> 12
              [] o.note = "emptyArray" -> 10
              [] OTHER -> 0)

\* JSON.stringify(objects).length
ObjectsJsonLen(objects) ==
  2 + SumSeq([i \in DOMAIN objects |-> ObjectJsonLen(objects[i])])
    + (IF Len(objects) > 1 THEN Len(objects) - 1 ELSE 0)

\* the double quotes of JSON.stringify(objects), escaped when the text is
\* stringified again
ObjectsQuotes(objects) ==
  SumSeq([i \in DOMAIN objects |-> IF objects[i].note = "text" THEN 12 ELSE 8])

\* JSON.stringify of a list of objects: per object the text of its other
\* properties (known by its length) and the text of its note property
JSONstringify(objects) ==
  [i \in DOMAIN objects |->
     <<objects[i].size,
       CASE objects[i].note = "text" -> "\"note\":\"text\""
         [] objects[i].note = "null" -> "\"note\":null"
         [] objects[i].note = "emptyArray" -> "\"note\":[]"
         [] OTHER -> "">>]

\* JSON.parse of such a text
JSONparse(text) ==
  [i \in DOMAIN text |->
     Object(text[i][1],
            CASE text[i][2] = "\"note\":\"text\"" -> "text"
              [] text[i][2] = "\"note\":null" -> "null"
              [] text[i][2] = "\"note\":[]" -> "emptyArray"
              [] OTHER -> "absent")]

\* compressData: { _compressed: true, data: JSON.stringify(data) }; objects
\* keeps what the text encodes, for the size estimates
compressData(objects) ==
  [compressed |-> TRUE, objects |-> objects, data |-> JSONstringify(objects)]

\* isCompressed
isCompressed(data) == data.compressed

\* decompressData: JSON.parse(compressedData.data)
decompressData(data) ==
  IF data.compressed THEN JSONparse(data.data) ELSE data.objects
\* what setObjects stores without compression
Uncompressed(objects) == [compressed |-> FALSE, objects |-> objects]

\* JSON.stringify(data).length of a stored partition value
DataJsonLen(data) ==
  IF data.compressed
  THEN 30 + ObjectsJsonLen(data.objects) + ObjectsQuotes(data.objects)
  ELSE ObjectsJsonLen(data.objects)

\* optimizeAppData: the symbols are replaced by an empty namespace list
optimizeAppData(app) == [app EXCEPT !.namespaces = 0]

\* the bytes behind getMemoryStats().totalMemoryMB
OptTotalBytes(apps, order, ps) ==
  SumSeq([i \in DOMAIN order |-> apps[order[i]].memoryUsage])
  + SumSeq([p \in DOMAIN PartitionNames |->
              SumSeq([j \in DOMAIN ps[PartitionNames[p]] |->
                        DataJsonLen(ps[PartitionNames[p]][j].data)])])

\* getMemoryStats().totalMemoryMB
totalMemoryMB(apps, order, ps) == RoundMB(OptTotalBytes(apps, order, ps))

\* Array.prototype.sort by ascending rank; equal ranks keep their order
RECURSIVE InsertByRank(_, _)
InsertByRank(sorted, x) ==
  IF sorted = <<>> THEN <<x>>
  ELSE IF Head(sorted).rank <= x.rank
       THEN <<Head(sorted)>> \o InsertByRank(Tail(sorted), x)
       ELSE <<x>> \o sorted

RECURSIVE SortByRank(_)
SortByRank(s) ==
  IF s = <<>> THEN <<>>
  ELSE InsertByRank(SortByRank(SubSeq(s, 1, Len(s) - 1)), s[Len(s)])

\* partition[key] = data: a present key keeps its place
PutData(partition, k, data) ==
  IF \E j \in DOMAIN partition : partition[j].key = k
  THEN [j \in DOMAIN partition |->
          IF partition[j].key = k THEN [key |-> k, data |-> data]
          ELSE partition[j]]
  ELSE Append(partition, [key |-> k, data |-> data])

\* delete partition[key]
DeleteData(partition, k) == SelectSeq(partition, LAMBDA e : e.key # k)

\* the state evictions work on
Store(apps, order, ps, victims) ==
  [apps |-> apps, order |-> order, parts |-> ps, victims |-> victims]

\* the least lastAccessed among the app entries present
OptMinLastAccessed(st) ==
  CHOOSE m \in {st.apps[st.order[i]].lastAccessed : i \in DOMAIN st.order} :
    \A i \in DOMAIN st.order : m <= st.apps[st.order[i]].lastAccessed

\* the least accessCount among the app entries present
OptMinAccessCount(st) ==
  CHOOSE m \in {st.apps[st.order[i]].accessCount : i \in DOMAIN st.order} :
    \A i \in DOMAIN st.order : m <= st.apps[st.order[i]].accessCount

\* the loop of evictLRU and evictLFU over the sorted app entries
RECURSIVE EvictApps(_, _, _)
EvictApps(st, entries, strategy) ==
  IF entries = <<>> THEN st
  ELSE LET k == Head(entries).key
           v == [path |-> k, lastAccessed |-> st.apps[k].lastAccessed,
                 accessCount |-> st.apps[k].accessCount,
                 oldest |-> OptMinLastAccessed(st),
                 least |-> OptMinAccessCount(st),
                 usage |-> totalMemoryMB(st.apps, st.order, st.parts)]
           next == Store([st.apps EXCEPT ![k] = NoEntry],
                         RemoveFromSeq(st.order, k), st.parts,
                         Append(st.victims, v))
       IN IF totalMemoryMB(next.apps, next.order, next.parts) <= OptMaxMemoryMB
          THEN next
          ELSE EvictApps(next, Tail(entries), strategy)

evictLRU(st) ==
  EvictApps(st,
            SortByRank([i \in DOMAIN st.order |->
                          [key |-> st.order[i],
                           rank |-> st.apps[st.order[i]].lastAccessed]]),
            "lru")

\* the order of evictLFU reversed: the most used entry first
evictMostUsed(st) ==
  EvictApps(st,
            SortByRank([i \in DOMAIN st.order |->
                          [key |-> st.order[i],
                           rank |-> 0 - st.apps[st.order[i]].accessCount]]),
            "lfu")

evictLFU(st) ==
  EvictApps(st,
            SortByRank([i \in DOMAIN st.order |->
                          [key |-> st.order[i],
                           rank |-> st.apps[st.order[i]].accessCount]]),
            "lfu")

\* the entries of one partition as findLargestObjects lists them
PartitionSizes(ps, name) ==
  [j \in DOMAIN ps[name] |->
     [partition |-> name, key |-> ps[name][j].key,
      size |-> DataJsonLen(ps[name][j].data),
      rank |-> 0 - DataJsonLen(ps[name][j].data)]]

RECURSIVE AllPartitionSizes(_, _)
AllPartitionSizes(ps, names) ==
  IF names = <<>> THEN <<>>
  ELSE PartitionSizes(ps, Head(names)) \o AllPartitionSizes(ps, Tail(names))

\* findLargestObjects: apps first, then the partitions, sorted by size
\* descending
findLargestObjects(st) ==
  SortByRank(
    [i \in DOMAIN st.order |->
       [partition |-> "apps", key |-> <<st.order[i], "">>,
        size |-> st.apps[st.order[i]].memoryUsage,
        rank |-> 0 - st.apps[st.order[i]].memoryUsage]]
    \o AllPartitionSizes(st.parts, PartitionNames))

\* the loop of evictLargest: each key is split into its partition name and
\* the rest, and the partition is looked up by getPartitionForType(name)
RECURSIVE EvictObjects(_, _)
EvictObjects(st, largestObjects) ==
  IF largestObjects = <<>> THEN st
  ELSE LET obj == Head(largestObjects)
           v == [partition |-> obj.partition, key |-> obj.key, size |-> obj.size,
                 usage |-> totalMemoryMB(st.apps, st.order, st.parts)]
           next ==
             IF obj.partition = "apps"
             THEN Store([st.apps EXCEPT ![obj.key[1]] = NoEntry],
                        RemoveFromSeq(st.order, obj.key[1]), st.parts,
                        Append(st.victims, v))
             ELSE LET target == getPartitionForType(obj.partition)
                  IN Store(st.apps, st.order,
                           [st.parts EXCEPT ![target] = DeleteData(@, obj.key)],
                           Append(st.victims, v))
       IN IF totalMemoryMB(next.apps, next.order, next.parts) <= OptMaxMemoryMB
          THEN next
          ELSE EvictObjects(next, Tail(largestObjects))

evictLargest(st) == EvictObjects(st, findLargestObjects(st))

\* a fault: the strategy runs without the test of the footprint before it
optEvictUnchecked(st) ==
  CASE ocfg.strategy = "lru" -> evictLRU(st)
    [] ocfg.strategy = "lfu" -> evictLFU(st)
    [] ocfg.strategy = "size-based" -> evictLargest(st)

\* MemoryOptimizedCache.enforceMemoryLimits
optEnforceMemoryLimits(st) ==
  IF totalMemoryMB(st.apps, st.order, st.parts) <= OptMaxMemoryMB THEN st
  ELSE CASE ocfg.strategy = "lru" -> evictLRU(st)
         [] ocfg.strategy = "lfu" -> evictLFU(st)
         [] ocfg.strategy = "size-based" -> evictLargest(st)

\* MemoryOptimizedCache.isEntryValid with Date.now() = t
optIsEntryValid(timestamp, entryHash, currentHash, t) ==
  IF t - timestamp > OptMaxAge THEN FALSE
  ELSE IF entryHash # currentHash THEN FALSE
  ELSE TRUE

OptPreOf(filePath, currentFileHash) ==
  LET e == oapps[filePath]
  IN [present |-> e.present,
      expired |-> e.present /\ now - e.timestamp > OptMaxAge,
      mismatch |-> e.present /\ e.fileHash # currentFileHash]

-----------------------------------------------------------------------------
(* MemoryOptimizedCache: the operations *)

setApp(filePath, app) ==
  /\ component = "opt"
  /\ LET optimizedApp == optimizeAppData(app)
         entry == [present |-> TRUE, appData |-> optimizedApp,
                   timestamp |-> now, fileHash |-> app.fileHash,
                   accessCount |-> 0, lastAccessed |-> now,
                   memoryUsage |-> AppJsonLen(optimizedApp)]
         st == optEnforceMemoryLimits(
                 Store([oapps EXCEPT ![filePath] = entry],
                       AppendNew(oorder, filePath), parts, <<>>))
     IN /\ oapps' = st.apps
        /\ oorder' = st.order
        /\ parts' = st.parts
        /\ ret' = RetRec("setApp", filePath, app.fileHash, NoKey, Null, NoPre,
                         st.victims)
  /\ UNCHANGED <<component, memVars, loaderVars, indexVars, now, lazyVars, ocfg>>

setObjects(appId, objectType, objects) ==
  /\ component = "opt"
  /\ LET partition == getPartitionForType(objectType)
         k == <<appId, objectType>>
         optimizedObjects == optimizeObjectsData(objects)
         data == IF ocfg.compression THEN compressData(optimizedObjects)
                 ELSE Uncompressed(optimizedObjects)
         st == optEnforceMemoryLimits(
                 Store(oapps, oorder,
                       [parts EXCEPT ![partition] = PutData(@, k, data)], <<>>))
     IN /\ oapps' = st.apps
        /\ oorder' = st.order
        /\ parts' = st.parts
        /\ ret' = RetRec("setObjects", appId, "", <<objectType, 0, "">>,
                         ListValue(objects), NoPre, st.victims)
  /\ UNCHANGED <<component, memVars, loaderVars, indexVars, now, lazyVars, ocfg>>

getApp(filePath, currentFileHash) ==
  /\ component = "opt"
  /\ LET entry == oapps[filePath]
     IN IF ~entry.present
           \/ ~optIsEntryValid(entry.timestamp, entry.fileHash, currentFileHash, now)
        THEN /\ ret' = RetRec("getApp", filePath, currentFileHash, NoKey, Null,
                              OptPreOf(filePath, currentFileHash), <<>>)
             /\ UNCHANGED oapps
        ELSE /\ entry.accessCount < MaxAccess
             /\ oapps' = [oapps EXCEPT ![filePath] = Accessed(entry)]
             /\ ret' = RetRec("getApp", filePath, currentFileHash, NoKey,
                              AppValue(entry.appData),
                              OptPreOf(filePath, currentFileHash), <<>>)
  /\ UNCHANGED <<component, memVars, loaderVars, indexVars, now, lazyVars, ocfg, oorder, parts>>

\* getObjects: what is stored under `${appId}:${objectType}` in the partition
\* of objectType, decompressed when it was compressed
getObjects(appId, objectType) ==
  /\ component = "opt"
  /\ LET partition == parts[getPartitionForType(objectType)]
         k == <<appId, objectType>>
         found == SelectSeq(partition, LAMBDA e : e.key = k)
     IN ret' = RetRec("getObjects", appId, "", <<objectType, 0, "">>,
                      IF found = <<>> THEN Null
                      ELSE IF ocfg.compression /\ isCompressed(found[1].data)
                      THEN ListValue(decompressData(found[1].data))
                      ELSE IF found[1].data.compressed
                      THEN [kind |-> "compressed"]
                      ELSE ListValue(found[1].data.objects),
                      NoPre, <<>>)
  /\ UNCHANGED <<component, memVars, loaderVars, indexVars, now, lazyVars, optVars>>

\* MemoryOptimizedCache.cleanup: every app entry older than maxAge is deleted;
\* returns the count
optCleanup ==
  /\ component = "opt"
  /\ LET expired == {l \in Range(oorder) :
                       TooOld(oapps[l].timestamp, now, OptMaxAge)}
     IN /\ oapps' = [l \in Locators |->
                       IF l \in expired THEN [present |-> FALSE] ELSE oapps[l]]
        /\ oorder' = SelectSeq(oorder, LAMBDA l : l \notin expired)
        /\ ret' = RetRec("cleanup", "", "", NoKey,
                         [kind |-> "count", n |-> Cardinality(expired)],
                         NoPre, <<>>)
  /\ UNCHANGED <<component, memVars, loaderVars, indexVars, now, lazyVars, ocfg, parts>>

\* the MemoryOptimizedCache as constructed, with any strategy, with or
\* without compression
OptInit ==
  /\ component = "opt"
  /\ IndexIdle
  /\ LoaderIdle
  /\ MemIdle
  /\ now = 0
  /\ heap = [i \in EntryIds |-> NoEntry]
  /\ lcache = [l \in Locators |-> 0]
  /\ lorder = <<>>
  /\ accessLog = [hits |-> 0, misses |-> 0]
  /\ reqs = <<>>
  /\ ret = NoRet
  /\ ocfg \in [strategy : {"lru", "lfu", "size-based"}, compression : BOOLEAN]
  /\ oapps = [l \in Locators |-> NoEntry]
  /\ oorder = <<>>
  /\ parts = EmptyPartitions

OptObjectLists == {<<Object(8000, "text")>>,
                   <<Object(8000, "null"), Object(8000, "absent")>>}

OptNext ==
  \/ \E l \in Locators, app \in Apps : setApp(l, app)
  \/ \E t \in {"table", "query"}, objects \in OptObjectLists :
       setObjects("app1", t, objects)
  \/ \E l \in Locators, h \in Hashes : getApp(l, h)
  \/ optCleanup

\* object lists that fit under the ceiling, with every kind of property
SmallObjectLists ==
  {<<Object(100, "text")>>, <<Object(100, "absent"), Object(200, "text")>>,
   <<Object(100, "null")>>, <<Object(100, "emptyArray")>>, <<>>}

\* the partitions written and read back
StoreNext ==
  \/ \E t \in {"table", "query"}, objects \in SmallObjectLists :
       setObjects("app1", t, objects)
  \/ \E appId \in {"app1", "app2"}, t \in {"table", "query"} :
       getObjects(appId, t)

SpecStore == OptInit /\ [][StoreNext]_vars

\* one container with every read: the validity side
LazyReadNext ==
  \/ setLazy("L1", SmallApp, DocTwoTables, now)
  \/ \E h \in Hashes : getAppMetadata("L1", h)
  \/ \E h \in Hashes : has("L1", h)
  \/ \E h \in Hashes :
       getObjectMetadata("L1", h, "table", UndefinedId, UndefinedName)
  \/ \E h \in Hashes : getLoadingStats("L1", h)
  \/ \E h \in Hashes :
       loadObject("L1", h, <<"table", 18, "Customer">>) /\ Len(reqs') <= 1
  \/ \E h \in Hashes :
       loadObjectsByType("L1", h, "table") /\ Len(reqs') <= 1
  \/ LazyResume
  \/ getCachedPaths

\* the reads of MemoryOptimizedCache
OptReadNext ==
  \/ \E app \in Apps : setApp("L1", app)
  \/ \E h \in Hashes : getApp("L1", h)

MaxChildren == 2      \* records per child array of a parsed document

\* child records: two with Id and Name, one with neither (createObjectMetadata
\* reads 0 and ''), and a value that is not an object
ChildRecords ==
  {Child(18, "Customer"), Child(23, "Vendor"), Child(0, ""), NotAnObject}

\* documents with every Tables array of at most MaxChildren child records,
\* with or without a page, and the malformed one
ParsedDocs ==
  {[bytes |-> 10000, malformed |-> FALSE,
    arrays |-> [NoArrays EXCEPT !["Tables"] = tables, !["Pages"] = pages]] :
     tables \in UNION {[1 .. n -> ChildRecords] : n \in 0 .. MaxChildren},
     pages \in {<<>>, <<Child(18, "Customer")>>}}
  \cup {DocMalformed}

\* containers of any document admitted, their statistics read
ParseNext ==
  \/ \E doc \in ParsedDocs : setLazy("L1", SmallApp, doc, now)
  \/ \E h \in Hashes : getLoadingStats("L1", h)

SpecParse == LazyInit /\ [][ParseNext]_vars

\* one container at a fixed time, with every load: the materialization side
LazyLoadNext ==
  \/ \E app \in {a \in Apps : a.namespaces = 0}, doc \in Docs :
       setLazy("L1", app, doc, now)
  \/ \E h \in Hashes, k \in RequestKeys :
       loadObject("L1", h, k) /\ Len(reqs') <= 1
  \/ \E h \in Hashes, t \in RequestTypes :
       loadObjectsByType("L1", h, t) /\ Len(reqs') <= 1
  \/ LazyResume

\* one container and two requests that may be suspended at the same time
ConcurrentNext ==
  \/ lcache["L1"] = 0 /\ setLazy("L1", SmallApp, DocTwoTables, now)
  \/ \E k \in {<<"table", 18, "Customer">>, <<"table", 23, "Vendor">>} :
       loadObject("L1", "H1", k)
  \/ loadObjectsByType("L1", "H1", "table")
  \/ LazyResume

SpecConcurrent == LazyInit /\ [][ConcurrentNext]_vars

\* one container admitted, its children materialized one request at a time,
\* and the statistics read
StatsNext ==
  \/ setLazy("L1", SmallApp, DocTwoTables, now)
  \/ \E h \in Hashes, k \in RequestKeys :
       loadObject("L1", h, k) /\ Len(reqs') <= 1
  \/ \E h \in Hashes : loadObjectsByType("L1", h, "table") /\ Len(reqs') <= 1
  \/ LazyResume
  \/ getCacheStats

SpecStats == LazyInit /\ [][StatsNext]_vars

\* reads of one container suspended while another container is admitted
ReadDuringAdmitNext ==
  \/ Tick
  \/ \E l \in Locators, d \in {0, 1} : setLazy(l, SmallApp, DocTwoTables, now + d)
  \/ loadObject("L1", "H1", <<"table", 18, "Customer">>) /\ Len(reqs') <= 1
  \/ loadObjectsByType("L1", "H1", "table") /\ Len(reqs') <= 1
  \/ LazyResume

SpecReadDuringAdmit == LazyInit /\ [][ReadDuringAdmitNext]_vars

\* one filePath admitted again and again with either hash, small or large,
\* read and materialized in between, under a moving clock
ReadmitNext ==
  \/ Tick
  \/ \E h \in Hashes, doc \in {DocTwoTables, DocMixed}, d \in {0, 1} :
       setLazy("L1", [SmallApp EXCEPT !.fileHash = h], doc, now + d)
  \/ \E h \in Hashes : getAppMetadata("L1", h)
  \/ loadObject("L1", "H1", <<"table", 18, "Customer">>) /\ Len(reqs') <= 1
  \/ loadObjectsByType("L1", "H1", "table") /\ Len(reqs') <= 1
  \/ LazyResume

SpecReadmit == LazyInit /\ [][ReadmitNext]_vars

SpecLazyLoad == LazyInit /\ [][LazyLoadNext]_vars

-----------------------------------------------------------------------------
(* ObjectIndex: strings.  A string is the sequence of its characters. *)

LowerChars == <<"a", "b", "c", "d", "e", "f", "g", "h", "i", "j", "k", "l", "m",
                "n", "o", "p", "q", "r", "s", "t", "u", "v", "w", "x", "y", "z">>
UpperChars == <<"A", "B", "C", "D", "E", "F", "G", "H", "I", "J", "K", "L", "M",
                "N", "O", "P", "Q", "R", "S", "T", "U", "V", "W", "X", "Y", "Z">>

\* the place of the letter c in the alphabet, 0 for any other character
LetterRank(c) ==
  IF \E i \in DOMAIN LowerChars : c \in {LowerChars[i], UpperChars[i]}
  THEN CHOOSE i \in DOMAIN LowerChars : c \in {LowerChars[i], UpperChars[i]}
  ELSE 0

\* /[A-Z]/ matches c
IsUpper(c) == c \in Range(UpperChars)

\* String.prototype.toLowerCase on a sequence of characters
toLowerCaseChars(str) ==
  [i \in DOMAIN str |->
     IF IsUpper(str[i]) THEN LowerChars[LetterRank(str[i])] ELSE str[i]]

\* objectName.replace(/([A-Z])/g, ' $1')
RECURSIVE SpaceBeforeCapitals(_)
SpaceBeforeCapitals(str) ==
  IF str = <<>> THEN <<>>
  ELSE (IF IsUpper(Head(str)) THEN <<" ", Head(str)>> ELSE <<Head(str)>>)
       \o SpaceBeforeCapitals(Tail(str))

\* String.prototype.trim
RECURSIVE trim(_)
trim(str) ==
  IF str = <<>> THEN <<>>
  ELSE IF Head(str) = " " THEN trim(Tail(str))
  ELSE IF str[Len(str)] = " " THEN trim(SubSeq(str, 1, Len(str) - 1))
  ELSE str

\* str.split(' '), word being the characters read since the last space
RECURSIVE split(_, _)
split(str, word) ==
  IF str = <<>> THEN <<word>>
  ELSE IF Head(str) = " " THEN <<word>> \o split(Tail(str), <<>>)
  ELSE split(Tail(str), Append(word, Head(str)))

\* [...new Set(list)]: the first occurrence of each element, in order
RECURSIVE Unique(_)
Unique(list) ==
  IF list = <<>> THEN <<>>
  ELSE LET r == Unique(SubSeq(list, 1, Len(list) - 1))
       IN AppendNew(r, list[Len(list)])

\* a.localeCompare(b) < 0: letters compare by their place in the alphabet
\* whatever their case; strings equal but for case compare by the first
\* character that differs, the lower case one first
RECURSIVE BaseLess(_, _)
BaseLess(a, b) ==
  IF b = <<>> THEN FALSE
  ELSE IF a = <<>> THEN TRUE
  ELSE IF LetterRank(Head(a)) # LetterRank(Head(b))
       THEN LetterRank(Head(a)) < LetterRank(Head(b))
  ELSE BaseLess(Tail(a), Tail(b))

RECURSIVE CaseLess(_, _)
CaseLess(a, b) ==
  IF a = <<>> \/ b = <<>> THEN FALSE
  ELSE IF Head(a) # Head(b) THEN ~IsUpper(Head(a))
  ELSE CaseLess(Tail(a), Tail(b))

localeCompare(a, b) ==
  IF BaseLess(a, b) THEN -1
  ELSE IF BaseLess(b, a) THEN 1
  ELSE IF a = b THEN 0
  ELSE IF CaseLess(a, b) THEN -1 ELSE 1

-----------------------------------------------------------------------------
(* ObjectIndex: inputs *)

TypeTable == <<"t", "a", "b", "l", "e">>
TypeCodeunit == <<"c", "o", "d", "e", "u", "n", "i", "t">>
TypePage == <<"p", "a", "g", "e">>
TypePageExtension == TypePage \o <<"e", "x", "t", "e", "n", "s", "i", "o", "n">>
TypeReport == <<"r", "e", "p", "o", "r", "t">>
TypeEnum == <<"e", "n", "u", "m">>
TypeXmlPort == <<"x", "m", "l", "p", "o", "r", "t">>
TypeQuery == <<"q", "u", "e", "r", "y">>

\* the objectTypes indexApp walks through, in its order
IndexedTypes == <<TypeTable, TypeCodeunit, TypePage, TypePageExtension,
                  TypeReport, TypeEnum>>

\* a property of a descriptor; an empty value is one that is not truthy
Property(name, value) == [name |-> name, value |-> value]

\* the descriptors the loader hands out: objectId, name, namespace (empty
\* when missing) and the raw properties array
MetaAb == [objectId |-> 1, name |-> <<"A", "b">>, namespace |-> <<>>,
           properties |-> <<>>]
MetaaB == [objectId |-> 2, name |-> <<"a", "B">>, namespace |-> <<"N">>,
           properties |-> <<Property(<<"p">>, <<"v">>), Property(<<"q">>, <<>>)>>]
MetaAB == [objectId |-> 1, name |-> <<"A", "B">>, namespace |-> <<>>,
           properties |-> <<Property(<<"p">>, <<"w">>)>>]
MetaPage == [objectId |-> 3, name |-> <<"P", "a", "g", "e">>,
             namespace |-> <<"N">>, properties |-> <<>>]

MetaQuery == [objectId |-> 4, name |-> <<"Q">>, namespace |-> <<>>,
              properties |-> <<>>]

\* the apps handed to indexApp: id and filePath
AppX == [id |-> <<"X">>, filePath |-> <<"x">>]
AppY == [id |-> <<"Y">>, filePath |-> <<"y">>]
IndexedApps == {AppX, AppY}

\* objectLoader.getObjectMetadata(filePath, objectType) of the loader handed
\* to indexApp
LoaderMetadata(filePath, objectType) ==
  CASE filePath = <<"x">> /\ objectType = TypeTable -> <<MetaAb, MetaaB>>
    [] filePath = <<"x">> /\ objectType = TypePage -> <<MetaPage>>
    [] filePath = <<"x">> /\ objectType = TypeQuery -> <<MetaQuery>>
    [] filePath = <<"y">> /\ objectType = TypeTable -> <<MetaAB>>
    [] OTHER -> <<>>

-----------------------------------------------------------------------------
(* ObjectIndex: helper methods *)

createObjectKey(appId, objectType, objectId, objectName) ==
  appId \o <<":">> \o objectType \o <<":">> \o <<ToString(objectId)>>
        \o <<":">> \o objectName

\* a fault: the bucket is replaced by one holding the value alone
ReplaceBucket(index, key, value) ==
  [k \in (DOMAIN index) \cup {key} |-> IF k = key THEN {value} ELSE index[k]]

addToIndex(index, key, value) ==
  [k \in (DOMAIN index) \cup {key} |->
     IF k # key THEN index[k]
     ELSE IF key \in DOMAIN index THEN index[key] \cup {value}
     ELSE {value}]

\* a fault: a bucket that becomes empty stays in the index
RemoveKeepingBucket(index, key, value) ==
  IF key \in DOMAIN index THEN [index EXCEPT ![key] = @ \ {value}] ELSE index

\* a fault: the whole bucket is deleted with the value
RemoveBucket(index, key, value) ==
  [k \in (DOMAIN index) \ {key} |-> index[k]]

removeFromIndex(index, key, value) ==
  IF key \notin DOMAIN index THEN index
  ELSE IF index[key] \ {value} = {}
       THEN [k \in (DOMAIN index) \ {key} |-> index[k]]
       ELSE [index EXCEPT ![key] = @ \ {value}]

\* a fault: the second set is ignored
KeepFirstSet(set1, set2) == set1

\* intersectSets: the items of set1, in its order, that set2 has
intersectSets(set1, set2) == SelectSeq(set1, LAMBDA item : item \in set2)

extractKeywords(objectName, objectType) ==
  LET words == split(trim(SpaceBeforeCapitals(objectName)), <<>>)
  IN Unique(<<objectType>>
            \o [i \in DOMAIN words |-> toLowerCaseChars(words[i])]
            \o <<toLowerCaseChars(objectName)>>)

\* extractProperties: the properties whose name and value are truthy, in
\* property order, a later one replacing the value of an earlier one of the
\* same name
RECURSIVE extractProperties(_)
extractProperties(properties) ==
  IF properties = <<>> THEN <<>>
  ELSE LET prop == properties[Len(properties)]
           rest == extractProperties(SubSeq(properties, 1, Len(properties) - 1))
       IN IF prop.name = <<>> \/ prop.value = <<>> THEN rest
          ELSE IF \E j \in DOMAIN rest : rest[j].name = prop.name
          THEN [j \in DOMAIN rest |->
                  IF rest[j].name = prop.name THEN prop ELSE rest[j]]
          ELSE Append(rest, prop)

\* `${appId}:${objectType}:${objectName}`, the key of the dependency index
dependencyKey(appId, objectType, objectName) ==
  appId \o <<":">> \o objectType \o <<":">> \o objectName

\* an analysis that finds every object referring to itself
extractSelfReference(app, objectType, metadata) ==
  <<dependencyKey(app.id, objectType, metadata.name)>>

\* extractDependencies resolves with an empty array
extractDependencies(app, objectType, metadata) == <<>>

\* this.index.get(key): the entry, Null when the map has no such key
IndexGet(ix, key) ==
  IF \E j \in DOMAIN ix.index : ix.index[j].key = key
  THEN ix.index[CHOOSE j \in DOMAIN ix.index : ix.index[j].key = key].data
  ELSE Null

-----------------------------------------------------------------------------
(* ObjectIndex: indexApp, removeApp, clear *)

MaxIndexing == 2      \* indexApp calls suspended at the same time

Root == <<"R", "o", "o", "t">>

\* the objects indexApp goes through: for each objectType in turn, the
\* descriptors the loader returns for it
RECURSIVE WorkList(_, _)
WorkList(app, objectTypes) ==
  IF objectTypes = <<>> THEN <<>>
  ELSE LET metadata == LoaderMetadata(app.filePath, Head(objectTypes))
       IN [i \in DOMAIN metadata |->
             [objectType |-> Head(objectTypes), metadata |-> metadata[i]]]
          \o WorkList(app, Tail(objectTypes))

\* indexObject up to "await this.extractDependencies": the key and the
\* keywords are computed; todo is what indexApp has left to do afterwards
IndexObjectStart(app, item, todo) ==
  [app |-> app, objectType |-> item.objectType, metadata |-> item.metadata,
   objectKey |-> createObjectKey(app.id, item.objectType,
                                 item.metadata.objectId, item.metadata.name),
   keywords |-> extractKeywords(item.metadata.name, item.objectType),
   todo |-> todo]

\* addToIndex / removeFromIndex for each key of a list
RECURSIVE AddEach(_, _, _)
AddEach(index, bucketKeys, value) ==
  IF bucketKeys = <<>> THEN index
  ELSE AddEach(addToIndex(index, Head(bucketKeys), value), Tail(bucketKeys), value)

RECURSIVE RemoveEach(_, _, _)
RemoveEach(index, bucketKeys, value) ==
  IF bucketKeys = <<>> THEN index
  ELSE RemoveEach(removeFromIndex(index, Head(bucketKeys), value),
                  Tail(bucketKeys), value)

LowerEach(strings) == [i \in DOMAIN strings |-> toLowerCaseChars(strings[i])]

\* indexObject after the await: the entry is built and added to the main
\* index and to the secondary indexes
indexObject(ix, c, dependencies) ==
  LET indexEntry ==
        [appId |-> c.app.id, objectType |-> c.objectType,
         objectId |-> c.metadata.objectId, objectName |-> c.metadata.name,
         namespace |-> IF c.metadata.namespace = <<>> THEN Root
                       ELSE c.metadata.namespace,
         filePath |-> c.app.filePath, lastModified |-> now,
         properties |-> extractProperties(c.metadata.properties),
         dependencies |-> dependencies, keywords |-> c.keywords]
  IN [index |-> PutData(ix.index, c.objectKey, indexEntry),
      typeIndex |-> addToIndex(ix.typeIndex, c.objectType, c.objectKey),
      nameIndex |-> addToIndex(ix.nameIndex,
                               toLowerCaseChars(c.metadata.name), c.objectKey),
      appIndex |-> addToIndex(ix.appIndex, c.app.id, c.objectKey),
      keywordIndex |-> AddEach(ix.keywordIndex, LowerEach(c.keywords),
                               c.objectKey),
      dependencyIndex |-> AddEach(ix.dependencyIndex, dependencies, c.objectKey)]

\* the body of the loop of removeApp for one key
RemoveKey(ix, key) ==
  LET entry == IndexGet(ix, key)
  IN IF entry = Null THEN ix
     ELSE [index |-> DeleteData(ix.index, key),
           typeIndex |-> removeFromIndex(ix.typeIndex, entry.objectType, key),
           nameIndex |-> removeFromIndex(ix.nameIndex,
                                         toLowerCaseChars(entry.objectName), key),
           appIndex |-> removeFromIndex(ix.appIndex, entry.appId, key),
           keywordIndex |-> RemoveEach(ix.keywordIndex,
                                       LowerEach(entry.keywords), key),
           dependencyIndex |-> RemoveEach(ix.dependencyIndex,
                                          entry.dependencies, key)]

RECURSIVE RemoveKeys(_, _)
RemoveKeys(ix, objectKeys) ==
  IF objectKeys = {} THEN ix
  ELSE LET key == CHOOSE k \in objectKeys : TRUE
       IN RemoveKeys(RemoveKey(ix, key), objectKeys \ {key})

\* a filter that constrains nothing
NoFilter ==
  [appIds |-> <<>>, objectTypes |-> <<>>, objectNames |-> <<>>,
   keywords |-> <<>>, objectIds |-> <<>>, namespaces |-> <<>>,
   minId |-> UndefinedId, maxId |-> UndefinedId, properties |-> <<>>]

\* a completed call on the index: its arguments and what it returned
IndexRet(op, appId, filter, result) ==
  [op |-> op, appId |-> appId, filter |-> filter, result |-> result]

\* indexApp up to the first await, or to its return when the loader has no
\* descriptor at all
indexApp(app) ==
  /\ component = "index"
  /\ LET work == WorkList(app, IndexedTypes)
     IN IF work = <<>>
        THEN /\ indexing' = indexing
             /\ ret' = IndexRet("indexApp", app.id, NoFilter, <<>>)
        ELSE /\ Len(indexing) < MaxIndexing
             /\ indexing' = Append(indexing,
                                   IndexObjectStart(app, Head(work), Tail(work)))
             /\ ret' = IndexRet("suspended", app.id, NoFilter, <<>>)
  /\ UNCHANGED <<component, memVars, loaderVars, now, lazyVars, optVars, oix>>

\* a suspended indexApp resumes: indexObject adds its entry, and indexApp
\* returns or starts the indexObject of the next descriptor
ResumeIndexObject(i) ==
  /\ component = "index"
  /\ i \in DOMAIN indexing
  /\ LET c == indexing[i]
         dependencies == extractDependencies(c.app, c.objectType, c.metadata)
     IN /\ oix' = indexObject(oix, c, dependencies)
        /\ IF c.todo = <<>>
           THEN /\ indexing' = RemoveAt(indexing, i)
                /\ ret' = IndexRet("indexApp", c.app.id, NoFilter, <<>>)
           ELSE /\ indexing' = [indexing EXCEPT ![i] =
                       IndexObjectStart(c.app, Head(c.todo), Tail(c.todo))]
                /\ ret' = IndexRet("resumed", c.app.id, NoFilter, <<>>)
  /\ UNCHANGED <<component, memVars, loaderVars, now, lazyVars, optVars>>

\* removeApp; result is the number of keys the app index held for appId
removeApp(appId) ==
  /\ component = "index"
  /\ IF appId \notin DOMAIN oix.appIndex
     THEN /\ oix' = oix
          /\ ret' = IndexRet("removeApp", appId, NoFilter, 0)
     ELSE /\ oix' = RemoveKeys(oix, oix.appIndex[appId])
          /\ ret' = IndexRet("removeApp", appId, NoFilter,
                             Cardinality(oix.appIndex[appId]))
  /\ UNCHANGED <<component, memVars, loaderVars, now, lazyVars, optVars, indexing>>

\* what findDependents returns on the index ix: the entries of the keys the
\* dependency index holds for the object, those without entry skipped
findDependentsIn(ix, appId, objectType, objectName) ==
  LET key == dependencyKey(appId, objectType, objectName)
  IN IF key \notin DOMAIN ix.dependencyIndex THEN <<>>
     ELSE LET keys == SelectSeq([j \in DOMAIN ix.index |-> ix.index[j].key],
                                LAMBDA k : k \in ix.dependencyIndex[key])
          IN [j \in DOMAIN keys |-> IndexGet(ix, keys[j])]

findDependents(appId, objectType, objectName) ==
  /\ component = "index"
  /\ ret' = IndexRet("findDependents", appId, NoFilter,
                     findDependentsIn(oix, appId, objectType, objectName))
  /\ UNCHANGED <<component, memVars, loaderVars, now, lazyVars, optVars, indexVars>>

clear ==
  /\ component = "index"
  /\ oix' = EmptyIndex
  /\ ret' = IndexRet("clear", <<>>, NoFilter, <<>>)
  /\ UNCHANGED <<component, memVars, loaderVars, now, lazyVars, optVars, indexing>>

-----------------------------------------------------------------------------
(* ObjectIndex: search *)

MaxDimensions == 2    \* dimensions a search filter constrains at once

\* the filters searched with: each dimension absent (empty) or one of two
\* values, at most MaxDimensions of them present
FilterChoices ==
  [appIds : {<<>>, <<AppX.id>>, <<AppY.id, <<"Z">>>>},
   objectTypes : {<<>>, <<TypeTable>>, <<TypePage, TypeEnum>>},
   objectNames : {<<>>, <<<<"a", "b">>>>, <<<<"p", "A", "G", "E">>, <<"b">>>>},
   keywords : {<<>>, <<<<"B">>>>, <<TypePage>>},
   objectIds : {<<>>, <<1>>, <<2, 3>>},
   namespaces : {<<>>, <<Root>>, <<<<"N">>, <<"M">>>>},
   minId : {UndefinedId, 2},
   maxId : {UndefinedId, 2},
   properties : {<<>>, <<Property(<<"p">>, <<"v">>)>>,
                 <<Property(<<"p">>, <<"w">>), Property(<<"q">>, <<>>)>>}]

Dimensions == DOMAIN NoFilter

Filters ==
  {f \in FilterChoices :
     Cardinality({d \in Dimensions : f[d] # NoFilter[d]}) <= MaxDimensions}

\* the keys the buckets named by bucketKeys hold together
BucketsOf(index, bucketKeys) ==
  UNION {IF k \in DOMAIN index THEN index[k] ELSE {} : k \in Range(bucketKeys)}

\* one of the four filters search applies through a secondary index
Narrow(candidates, index, bucketKeys) ==
  IF Len(bucketKeys) > 0
  THEN intersectSets(candidates, BucketsOf(index, bucketKeys))
  ELSE candidates

\* the filters search applies to each candidate entry
PassesEntryFilters(entry, filter) ==
  /\ Len(filter.objectIds) > 0 => entry.objectId \in Range(filter.objectIds)
  /\ ~(filter.minId # UndefinedId /\ entry.objectId < filter.minId)
  /\ ~(filter.maxId # UndefinedId /\ entry.objectId > filter.maxId)
  /\ Len(filter.namespaces) > 0 => entry.namespace \in Range(filter.namespaces)
  /\ \A j \in DOMAIN filter.properties :
       \E i \in DOMAIN entry.properties :
         entry.properties[i] = filter.properties[j]

\* a comparator that looks at the name first
compareByName(a, b) ==
  IF a.objectName # b.objectName
  THEN localeCompare(a.objectName, b.objectName)
  ELSE IF a.objectId # b.objectId THEN a.objectId - b.objectId
  ELSE localeCompare(a.objectType, b.objectType)

\* the comparator search sorts with: objectType, then objectId, then name
compareEntries(a, b) ==
  IF a.objectType # b.objectType
  THEN localeCompare(a.objectType, b.objectType)
  ELSE IF a.objectId # b.objectId THEN a.objectId - b.objectId
  ELSE localeCompare(a.objectName, b.objectName)

\* Array.prototype.sort with that comparator; equal entries keep their order
RECURSIVE InsertEntry(_, _)
InsertEntry(sorted, x) ==
  IF sorted = <<>> THEN <<x>>
  ELSE IF compareEntries(Head(sorted), x) <= 0
       THEN <<Head(sorted)>> \o InsertEntry(Tail(sorted), x)
       ELSE <<x>> \o sorted

RECURSIVE SortEntries(_)
SortEntries(results) ==
  IF results = <<>> THEN <<>>
  ELSE InsertEntry(SortEntries(SubSeq(results, 1, Len(results) - 1)),
                   results[Len(results)])

\* what search(filter) returns on the index ix
searchIn(ix, filter) ==
  LET keys == [j \in DOMAIN ix.index |-> ix.index[j].key]
      byApp == Narrow(keys, ix.appIndex, filter.appIds)
      byType == Narrow(byApp, ix.typeIndex, filter.objectTypes)
      byName == Narrow(byType, ix.nameIndex, LowerEach(filter.objectNames))
      candidates == Narrow(byName, ix.keywordIndex, LowerEach(filter.keywords))
      entries == [j \in DOMAIN candidates |-> IndexGet(ix, candidates[j])]
  IN SortEntries(SelectSeq(entries,
                           LAMBDA entry : /\ entry # Null
                                          /\ PassesEntryFilters(entry, filter)))

search(filter) ==
  /\ component = "index"
  /\ ret' = IndexRet("search", <<>>, filter, searchIn(oix, filter))
  /\ UNCHANGED <<component, memVars, loaderVars, now, lazyVars, optVars, indexVars>>

IndexInit ==
  /\ component = "index"
  /\ OptIdle
  /\ IndexIdle
  /\ LoaderIdle
  /\ MemIdle
  /\ now = 0
  /\ heap = [i \in EntryIds |-> NoEntry]
  /\ lcache = [l \in Locators |-> 0]
  /\ lorder = <<>>
  /\ accessLog = [hits |-> 0, misses |-> 0]
  /\ reqs = <<>>
  /\ ret = NoRet

\* the index filled and emptied, with indexApp calls overlapping
IndexNext ==
  \/ \E app \in IndexedApps : indexApp(app)
  \/ \E i \in 1 .. MaxIndexing : ResumeIndexObject(i)
  \/ \E appId \in {AppX.id, AppY.id, <<"Z">>} : removeApp(appId)
  \/ clear
  \/ \E app \in IndexedApps :
       \E item \in Range(WorkList(app, IndexedTypes)) :
         findDependents(app.id, item.objectType, item.metadata.name)

SpecIndex == IndexInit /\ [][IndexNext]_vars

\* the index filled by one indexApp at a time, emptied, and searched; a
\* search changes nothing, so a search after a search reaches no new state
SearchNext ==
  \/ \E app \in IndexedApps : indexing = <<>> /\ indexApp(app)
  \/ \E i \in 1 .. MaxIndexing : ResumeIndexObject(i)
  \/ \E appId \in {AppX.id, AppY.id} : removeApp(appId)
  \/ clear
  \/ \E filter \in Filters : ret.op # "search" /\ search(filter)

SpecSearch == IndexInit /\ [][SearchNext]_vars

-----------------------------------------------------------------------------
(* OptimizedAppExtractor over a LazyMemoryCache.  A call made in the middle *)
(* of a synchronous stretch works on the cache state handed to it.          *)

\* a document with children of a priority category, of another loaded
\* category and of a category getAllObjectMetadata does not ask for
DocWithQuery ==
  [bytes |-> 10000, malformed |-> FALSE,
   arrays |-> [NoArrays EXCEPT !["Tables"] = <<Child(18, "Customer")>>,
                               !["Pages"] = <<Child(21, "Customer")>>,
                               !["Queries"] = <<Child(30, "Top")>>]]

DocTablePages ==
  [bytes |-> 10000, malformed |-> FALSE,
   arrays |-> [NoArrays EXCEPT !["Tables"] = <<Child(18, "Customer")>>,
                               !["Pages"] = <<Child(21, "Customer"),
                                              Child(22, "Vendor")>>]]

\* the .app files on disk: what readFileSync, calculateFileHash and the ZIP
\* entries yield for a path
FileOf(filePath) ==
  IF filePath = "L1"
  THEN [app |-> SmallApp, symbolsJson |-> DocWithQuery]
  ELSE [app |-> [fileHash |-> "H2", size |-> 100, namespaces |-> 0],
        symbolsJson |-> DocTablePages]

\* the LazyMemoryCache an extractor call works on
CacheState(hp, paths, order, log) ==
  [heap |-> hp, lcache |-> paths, lorder |-> order, accessLog |-> log]

CacheNow == CacheState(heap, lcache, lorder, accessLog)

EntryIn(cs, filePath) ==
  IF cs.lcache[filePath] = 0 THEN NoEntry ELSE cs.heap[cs.lcache[filePath]]

ValidIn(cs, filePath, fileHash) ==
  LET entry == EntryIn(cs, filePath)
  IN IF entry.present THEN isEntryValid(entry, fileHash, now) ELSE FALSE

\* an identity for a new entry object
FreeIds(hp) == {i \in EntryIds : ~hp[i].present}
FreeId(hp) == CHOOSE i \in FreeIds(hp) : \A j \in FreeIds(hp) : i <= j

\* extractAppLazy up to its first await: the cached app, or null when the
\* file has to be unpacked
extractAppLazyStart(cs, filePath) ==
  LET fileHash == FileOf(filePath).app.fileHash
      entry == EntryIn(cs, filePath)
  IN IF ValidIn(cs, filePath, fileHash)
     THEN [cs |-> [cs EXCEPT !.heap[cs.lcache[filePath]] =
                     [entry EXCEPT !.accessCount = @ + 1,
                                   !.lastAccessed = now]],
           val |-> AppValue(entry.appData)]
     ELSE [cs |-> cs, val |-> Null]

\* the rest of extractAppLazy when the app was not cached: setLazy stores the
\* entry and enforces the limit; held lists the records that still hold an
\* entry object
extractAppLazyStore(cs, filePath, held) ==
  LET file == FileOf(filePath)
      id == FreeId(cs.heap)
      entry == [present |-> TRUE, appData |-> file.app,
                bytes |-> file.symbolsJson.bytes,
                parser |-> buildObjectIndex(file.symbolsJson),
                objectCache |-> <<>>, timestamp |-> now,
                fileHash |-> file.app.fileHash, accessCount |-> 0,
                lastAccessed |-> now]
      hp == [cs.heap EXCEPT ![id] = entry]
      r == enforceMemoryLimits(hp, [cs.lcache EXCEPT ![filePath] = id],
                               AppendNew(cs.lorder, filePath), now, <<>>)
  IN CacheState(Collect(hp, r.paths, held), r.paths, r.order, cs.accessLog)

\* OptimizedAppExtractor.getLoadingStats
extractorGetLoadingStats(cs, filePath) ==
  IF ValidIn(cs, filePath, FileOf(filePath).app.fileHash)
  THEN parserGetLoadingStats(EntryIn(cs, filePath).parser)
  ELSE Null

\* OptimizedAppExtractor.getObjectMetadata(filePath, objectType)
extractorGetObjectMetadata(cs, filePath, objectType) ==
  IF ValidIn(cs, filePath, FileOf(filePath).app.fileHash)
  THEN [cs |-> [cs EXCEPT !.heap[cs.lcache[filePath]] = Touch(@)],
        val |-> parserGetObjectMetadata(EntryIn(cs, filePath).parser,
                                        objectType, UndefinedId, UndefinedName)]
  ELSE [cs |-> cs, val |-> <<>>]

\* a materialization request of a batch: the entry object it holds (ref),
\* where it waits (phase; "done" when its promise is settled) and its value
Item(k, ref, phase, val) == [key |-> k, ref |-> ref, phase |-> phase, val |-> val]

\* OptimizedAppExtractor.loadObject up to the await of LazyMemoryCache.loadObject
extractorLoadObject(cs, filePath, k) ==
  LET fileHash == FileOf(filePath).app.fileHash
      entry == EntryIn(cs, filePath)
      ref == cs.lcache[filePath]
  IN IF ~ValidIn(cs, filePath, fileHash)
     THEN [cs |-> [cs EXCEPT !.accessLog.misses = @ + 1],
           item |-> Item(k, 0, "done", Null)]
     ELSE IF k \in DOMAIN entry.objectCache
     THEN [cs |-> [cs EXCEPT !.accessLog.hits = @ + 1,
                             !.heap[ref] = Touch(@)],
           item |-> Item(k, 0, "done", entry.objectCache[k])]
     ELSE LET st == ParserLoadStart(cs.heap, ref, k)
          IN [cs |-> [cs EXCEPT !.heap = st.heap],
              item |-> Item(k, ref, st.phase, st.val)]

-----------------------------------------------------------------------------
(* ProgressiveAppLoader *)

MaxLoads == 2         \* loadAppProgressive calls made

\* ProgressiveLoadingOptions: the defaults and what a caller overrides
DefaultPriorityObjectTypes == {"table", "codeunit", "page"}

LoaderOptions ==
  [batchSize : {1, 2}, delayBetweenBatches : {0, 10},
   priorityObjectTypes : {DefaultPriorityObjectTypes, {"page"}},
   backgroundLoadingEnabled : BOOLEAN]

\* the categories getAllObjectMetadata asks for, in its order
LoaderObjectTypes == <<"table", "codeunit", "page", "pageextension", "report",
                       "enum">>

\* one entry of history: a progress report, an emitted event, a
\* materialization request, its settlement, or a call made on the loader
Happened(kind, id, phase, percentage, objectsLoaded, totalObjects, k, val) ==
  [kind |-> kind, id |-> id, phase |-> phase, percentage |-> percentage,
   objectsLoaded |-> objectsLoaded, totalObjects |-> totalObjects,
   key |-> k, val |-> val]

\* a progress report; percentage in hundredths of a percent
Progress(id, phase, percentage, objectsLoaded, totalObjects) ==
  Happened("progress", id, phase, percentage, objectsLoaded, totalObjects,
           NoKey, Null)

Emitted(kind, id, objectsLoaded, totalObjects) ==
  Happened(kind, id, "", 0, objectsLoaded, totalObjects, NoKey, Null)

\* a materialization request, with the options of the load that issues it
Requested(id, k, options) ==
  [kind |-> "request", id |-> id, phase |-> "", percentage |-> 0,
   objectsLoaded |-> 0, totalObjects |-> 0, key |-> k, val |-> Null,
   options |-> options]
Settled(id, k, val) == Happened("settled", id, "", 0, 0, 0, k, val)

\* the loader's own state, as a synchronous stretch hands it on
LoaderState(cs, progress, tasks, hist) ==
  [cs |-> cs, progress |-> progress, tasks |-> tasks, history |-> hist]

\* updateProgress: the report is stored under loadingId and emitted
updateProgress(ls, report) ==
  [ls EXCEPT !.progress = PutKey(@, report.id, report),
             !.history = Append(@, report)]

\* Map.prototype.delete on loadingProgress
DeleteProgress(progress, id) == [x \in (DOMAIN progress) \ {id} |-> progress[x]]

\* getAllObjectMetadata: the descriptors of the six categories, in order
RECURSIVE getAllObjectMetadata(_, _, _, _)
getAllObjectMetadata(cs, filePath, objectTypes, allMetadata) ==
  IF objectTypes = <<>> THEN [cs |-> cs, val |-> allMetadata]
  ELSE LET r == extractorGetObjectMetadata(cs, filePath, Head(objectTypes))
       IN getAllObjectMetadata(r.cs, filePath, Tail(objectTypes),
                               allMetadata \o r.val)

\* batch.map(meta => this.extractor.loadObject(...)): every request of the
\* batch runs up to its await, in order
RECURSIVE SubmitBatch(_, _, _, _)
SubmitBatch(ls, L, batch, items) ==
  IF batch = <<>> THEN [ls |-> ls, items |-> items]
  ELSE LET r == extractorLoadObject(ls.cs, L.path, Head(batch))
           hist == Append(ls.history, Requested(L.id, Head(batch), L.options))
       IN SubmitBatch(
            [ls EXCEPT !.cs = r.cs,
                       !.history =
                         IF r.item.phase = "done"
                         THEN Append(hist, Settled(L.id, Head(batch), r.item.val))
                         ELSE hist],
            L, Tail(batch), Append(items, r.item))

\* 30 + (loadedCount / totalObjects) * 65, capped at 95
batchPercentage(loadedCount, totalObjects) ==
  IF totalObjects = 0 THEN 9500
  ELSE LET percentage == 3000 + (6500 * loadedCount) \div totalObjects
       IN IF percentage < 9500 THEN percentage ELSE 9500

\* the for loop of loadObjectBatches entered at index L.next: the next batch
\* is submitted and awaited, or the call returns
EnterBatch(ls, L) ==
  IF L.next > Len(L.objects)
  THEN [ls |-> ls, load |-> [L EXCEPT !.phase = "return", !.batch = <<>>]]
  ELSE LET last == IF L.next + L.options.batchSize - 1 < Len(L.objects)
                   THEN L.next + L.options.batchSize - 1 ELSE Len(L.objects)
           r == SubmitBatch(ls, L, SubSeq(L.objects, L.next, last), <<>>)
       IN [ls |-> r.ls,
           load |-> [L EXCEPT !.phase = "batch", !.batch = r.items,
                              !.next = @ + L.options.batchSize]]

\* loadObjectBatches called on a list of descriptors
loadObjectBatches(ls, L, group, objects) ==
  EnterBatch(ls, [L EXCEPT !.group = group, !.objects = objects, !.next = 1])

\* loadObjectBatches after "await Promise.all": count, report, emit, and
\* delay or go on with the loop
AfterBatch(ls, L) ==
  LET loadedCount == L.loadedCount + Len(L.batch)
      reported ==
        updateProgress(ls,
          Progress(L.id, "objects", batchPercentage(loadedCount, L.totalObjects),
                   loadedCount, L.totalObjects))
      emitted == [reported EXCEPT !.history =
                    Append(@, Emitted("batchLoaded", L.id, loadedCount,
                                      L.totalObjects))]
      counted == [L EXCEPT !.loadedCount = loadedCount, !.batch = <<>>]
  IN IF L.next <= Len(L.objects) /\ L.options.delayBetweenBatches > 0
     THEN [ls |-> emitted, load |-> [counted EXCEPT !.phase = "delay"]]
     ELSE EnterBatch(emitted, counted)

\* a loadAppProgressive call or the background task it started, suspended at
\* an await: the app extractAppLazy found cached (app), the list
\* loadObjectBatches works on (objects), the index its loop is at (next), the
\* requests of the batch awaited (batch), the non-priority descriptors still
\* to load (rest), and whether loadAppProgressive has resolved (returned)
Load(id, filePath, options, app) ==
  [id |-> id, path |-> filePath, options |-> options, phase |-> "extract",
   app |-> app, group |-> "", objects |-> <<>>, next |-> 1, batch |-> <<>>,
   rest |-> <<>>, loadedCount |-> 0, totalObjects |-> 0, returned |-> FALSE]

LoaderNow == LoaderState(CacheNow, loadingProgress, loadingTasks, history)

\* the requests that hold an entry object, given the suspended calls
RECURSIVE HeldItems(_)
HeldItems(ld) ==
  IF ld = <<>> THEN <<>> ELSE Head(ld).batch \o HeldItems(Tail(ld))

\* the variables take the state a synchronous stretch ends in
Becomes(ls, ld) ==
  /\ heap' = Collect(ls.cs.heap, ls.cs.lcache, HeldItems(ld))
  /\ lcache' = ls.cs.lcache
  /\ lorder' = ls.cs.lorder
  /\ accessLog' = ls.cs.accessLog
  /\ loadingProgress' = ls.progress
  /\ loadingTasks' = ls.tasks
  /\ history' = ls.history
  /\ loads' = ld

\* what a call on the loader returned; stats is what getLoadingStats reports
\* for the container when the call returns
LoaderRet(op, id, filePath, options, val, stats) ==
  [op |-> op, id |-> id, path |-> filePath, options |-> options, val |-> val,
   stats |-> stats]

NoOptions == [batchSize |-> 0, delayBetweenBatches |-> 0,
              priorityObjectTypes |-> {}, backgroundLoadingEnabled |-> FALSE]

\* the loadAppProgressive calls made so far
LoadsMade == Cardinality({i \in DOMAIN history : history[i].phase = "metadata"})

\* loadAppProgressive up to "await this.extractor.extractAppLazy"
loadAppProgressive(filePath, options) ==
  /\ component = "loader"
  /\ LoadsMade < MaxLoads
  /\ LET loadingId == <<filePath, now>>
         reported == updateProgress(LoaderNow,
                       Progress(loadingId, "metadata", 1000, 0, 0))
         r == extractAppLazyStart(reported.cs, filePath)
     IN Becomes([reported EXCEPT !.cs = r.cs],
                Append(loads, Load(loadingId, filePath, options, r.val)))
  /\ ret' = LoaderRet("suspended", <<filePath, now>>, filePath, options, Null,
                      Null)
  /\ UNCHANGED <<component, memVars, now, optVars, indexVars, reqs>>

\* Phase 4 of loadAppProgressive and its finally block
Complete(ls, L, totalObjects) ==
  LET reported == updateProgress(ls,
                    Progress(L.id, "complete", 10000, totalObjects, totalObjects))
  IN [reported EXCEPT !.progress = DeleteProgress(@, L.id)]

\* loadAppProgressive resumes with the app: phases 2 and 3, then the
\* background task is started and the call resolves, or the call awaits
\* loadAllObjectsSync
ResumeExtract(i) ==
  /\ component = "loader"
  /\ i \in DOMAIN loads
  /\ loads[i].phase = "extract"
  /\ loads[i].app = Null => FreeIds(heap) # {}
  /\ LET L == loads[i]
         app == IF L.app = Null THEN AppValue(FileOf(L.path).app) ELSE L.app
         cs == IF L.app = Null
               THEN extractAppLazyStore(CacheNow, L.path, HeldItems(loads))
               ELSE CacheNow
         symbols == updateProgress([LoaderNow EXCEPT !.cs = cs],
                                   Progress(L.id, "symbols", 2500, 0, 0))
         loadingStats == extractorGetLoadingStats(cs, L.path)
         totalObjects == IF loadingStats = Null THEN 0 ELSE loadingStats.total
         objects == updateProgress(symbols,
                      Progress(L.id, "objects", 3000, 0, totalObjects))
         all == getAllObjectMetadata(cs, L.path, LoaderObjectTypes, <<>>)
         priority(k) == k[1] \in L.options.priorityObjectTypes
         other(k) == k[1] \notin L.options.priorityObjectTypes
     IN IF L.options.backgroundLoadingEnabled
        THEN LET b == loadObjectBatches(
                        [objects EXCEPT !.cs = all.cs],
                        [L EXCEPT !.totalObjects = Len(all.val),
                                  !.rest = SelectSeq(all.val, other),
                                  !.returned = TRUE],
                        "priority", SelectSeq(all.val, priority))
                  started == [b.ls EXCEPT !.tasks = AppendNew(@, L.id)]
             IN /\ Becomes(Complete(started, L, totalObjects),
                           [loads EXCEPT ![i] = b.load])
                /\ ret' = LoaderRet("loadAppProgressive", L.id, L.path,
                                    L.options, app,
                                    extractorGetLoadingStats(b.ls.cs, L.path))
        ELSE LET b == loadObjectBatches(
                        [objects EXCEPT !.cs = all.cs],
                        [L EXCEPT !.totalObjects = totalObjects, !.app = app],
                        "all", all.val)
             IN /\ Becomes(b.ls, [loads EXCEPT ![i] = b.load])
                /\ ret' = LoaderRet("resumed", L.id, L.path, L.options, Null,
                                    Null)
  /\ UNCHANGED <<component, memVars, now, optVars, indexVars, reqs>>

\* StreamingSymbolParser.loadObject of request j of the batch resumes after
\* "await parseObjectAtOffset"
ItemResumeParser(i, j) ==
  /\ component = "loader"
  /\ i \in DOMAIN loads
  /\ j \in DOMAIN loads[i].batch
  /\ loads[i].batch[j].phase = "parse"
  /\ LET item == loads[i].batch[j]
     IN /\ heap' = [heap EXCEPT ![item.ref].parser = parserMarkLoaded(@, item.key)]
        /\ loads' = [loads EXCEPT ![i].batch[j] =
                       Item(item.key, item.ref, "got", EmptyObject)]
  /\ ret' = LoaderRet("resumed", loads[i].id, loads[i].path, loads[i].options,
                      Null, Null)
  /\ UNCHANGED <<component, memVars, now, optVars, indexVars, reqs, lcache, lorder,
                 accessLog, loadingTasks, loadingProgress, history>>

\* LazyMemoryCache.loadObject of request j resumes: the object is stored in
\* the objectCache of the entry the request holds, or the rejection is
\* caught; the request's promise is settled
ItemResumeLoadObject(i, j) ==
  /\ component = "loader"
  /\ i \in DOMAIN loads
  /\ j \in DOMAIN loads[i].batch
  /\ loads[i].batch[j].phase \in {"got", "catch"}
  /\ LET L == loads[i]
         item == L.batch[j]
         val == IF item.phase = "got" THEN item.val ELSE Null
         hp == IF item.phase = "got"
               THEN [heap EXCEPT ![item.ref] =
                       Touch([@ EXCEPT !.objectCache = PutKey(@, item.key, val)])]
               ELSE heap
         cs == CacheState(hp, lcache, lorder, Miss)
     IN Becomes([LoaderNow EXCEPT !.cs = cs,
                                  !.history = Append(@, Settled(L.id, item.key, val))],
                [loads EXCEPT ![i].batch[j] = Item(item.key, 0, "done", val)])
  /\ ret' = LoaderRet("resumed", loads[i].id, loads[i].path, loads[i].options,
                      Null, Null)
  /\ UNCHANGED <<component, memVars, now, optVars, indexVars, reqs>>

\* loadObjectBatches resumes after "await Promise.all(loadPromises)"
ResumeBatch(i) ==
  /\ component = "loader"
  /\ i \in DOMAIN loads
  /\ loads[i].phase = "batch"
  /\ \A j \in DOMAIN loads[i].batch : loads[i].batch[j].phase = "done"
  /\ LET b == AfterBatch(LoaderNow, loads[i])
     IN Becomes(b.ls, [loads EXCEPT ![i] = b.load])
  /\ ret' = LoaderRet("resumed", loads[i].id, loads[i].path, loads[i].options,
                      Null, Null)
  /\ UNCHANGED <<component, memVars, now, optVars, indexVars, reqs>>

\* loadObjectBatches resumes after "await this.delay(...)"
ResumeDelay(i) ==
  /\ component = "loader"
  /\ i \in DOMAIN loads
  /\ loads[i].phase = "delay"
  /\ LET b == EnterBatch(LoaderNow, loads[i])
     IN Becomes(b.ls, [loads EXCEPT ![i] = b.load])
  /\ ret' = LoaderRet("resumed", loads[i].id, loads[i].path, loads[i].options,
                      Null, Null)
  /\ UNCHANGED <<component, memVars, now, optVars, indexVars, reqs>>

\* the caller of loadObjectBatches resumes.  loadObjectsInBackground goes on
\* with the remaining descriptors, or emits its completion and the task is
\* taken off the registry; loadAllObjectsSync returns and loadAppProgressive
\* resolves.
ResumeReturn(i) ==
  /\ component = "loader"
  /\ i \in DOMAIN loads
  /\ loads[i].phase = "return"
  /\ LET L == loads[i]
     IN CASE L.group = "priority" ->
               LET b == loadObjectBatches(LoaderNow, L, "other", L.rest)
               IN /\ Becomes(b.ls, [loads EXCEPT ![i] = b.load])
                  /\ ret' = LoaderRet("resumed", L.id, L.path, L.options, Null,
                                      Null)
          [] L.group = "other" ->
               /\ Becomes([LoaderNow EXCEPT
                             !.history = Append(@,
                               Emitted("backgroundLoadingComplete", L.id,
                                       L.loadedCount, L.totalObjects)),
                             !.tasks = RemoveFromSeq(@, L.id)],
                          RemoveAt(loads, i))
               /\ ret' = LoaderRet("backgroundLoadingComplete", L.id, L.path,
                                   L.options, Null,
                                   extractorGetLoadingStats(CacheNow, L.path))
          [] L.group = "all" ->
               /\ Becomes(Complete(LoaderNow, L, L.totalObjects),
                          RemoveAt(loads, i))
               /\ ret' = LoaderRet("loadAppProgressive", L.id, L.path,
                                   L.options, L.app,
                                   extractorGetLoadingStats(CacheNow, L.path))
  /\ UNCHANGED <<component, memVars, now, optVars, indexVars, reqs>>

\* cancelBackgroundLoading: the task id is taken off the registry
cancelBackgroundLoading(taskId) ==
  /\ component = "loader"
  /\ IF taskId \in Range(loadingTasks)
     THEN /\ loadingTasks' = RemoveFromSeq(loadingTasks, taskId)
          /\ history' = Append(history,
                               Happened("cancelled", taskId, "", 0, 0, 0, NoKey,
                                        BoolValue(TRUE)))
          /\ ret' = LoaderRet("cancelBackgroundLoading", taskId, taskId[1],
                              NoOptions, BoolValue(TRUE), Null)
     ELSE /\ ret' = LoaderRet("cancelBackgroundLoading", taskId, taskId[1],
                              NoOptions, BoolValue(FALSE), Null)
          /\ UNCHANGED <<loadingTasks, history>>
  /\ UNCHANGED <<component, memVars, now, optVars, indexVars, lazyVars, loads,
                 loadingProgress>>

\* getActiveLoadingTasks: Array.from(this.loadingTasks.keys())
getActiveLoadingTasks ==
  /\ component = "loader"
  /\ ret' = LoaderRet("getActiveLoadingTasks", <<>>, "", NoOptions,
                      ListValue(loadingTasks), Null)
  /\ UNCHANGED <<component, memVars, now, optVars, indexVars, lazyVars, loaderVars>>

\* the loader and its cache as constructed
LoaderInit ==
  /\ component = "loader"
  /\ OptIdle
  /\ IndexIdle
  /\ LoaderIdle
  /\ MemIdle
  /\ now = 0
  /\ heap = [i \in EntryIds |-> NoEntry]
  /\ lcache = [l \in Locators |-> 0]
  /\ lorder = <<>>
  /\ accessLog = [hits |-> 0, misses |-> 0]
  /\ reqs = <<>>
  /\ ret = NoRet

\* the steps of the calls suspended at an await
LoaderResume ==
  \/ \E i \in 1 .. MaxLoads : ResumeExtract(i)
  \/ \E i \in 1 .. MaxLoads, j \in 1 .. 2 : ItemResumeParser(i, j)
  \/ \E i \in 1 .. MaxLoads, j \in 1 .. 2 : ItemResumeLoadObject(i, j)
  \/ \E i \in 1 .. MaxLoads : ResumeBatch(i)
  \/ \E i \in 1 .. MaxLoads : ResumeDelay(i)
  \/ \E i \in 1 .. MaxLoads : ResumeReturn(i)

\* files loaded progressively under a moving clock, with cancellations
LoaderNext ==
  \/ Tick
  \/ \E filePath \in Locators, options \in LoaderOptions :
       LoadsMade = 0 /\ loadAppProgressive(filePath, options)
  \/ LoaderResume
  \/ \E filePath \in Locators, t \in 0 .. MaxTime :
       /\ <<filePath, t>> \in Range(loadingTasks) \cup {<<"L2", 0>>}
       /\ cancelBackgroundLoading(<<filePath, t>>)
  \/ getActiveLoadingTasks

SpecLoader == LoaderInit /\ [][LoaderNext]_vars

\* one file loaded in the background by up to MaxLoads calls, within the same
\* clock value or one tick apart; a call is made when no task is running or
\* when the task running has finished its priority descriptors
TaskOptions ==
  {o \in LoaderOptions : /\ o.backgroundLoadingEnabled
                         /\ o.batchSize = 1
                         /\ o.delayBetweenBatches > 0
                         /\ o.priorityObjectTypes = DefaultPriorityObjectTypes}

TasksNext ==
  \/ LoadsMade = 1 /\ now = 0 /\ Tick
  \/ \E options \in TaskOptions :
       /\ \A i \in DOMAIN loads : loads[i].group = "other"
       /\ loadAppProgressive("L1", options)
  \/ LoaderResume
  \/ \E t \in 0 .. MaxTime :
       /\ <<"L1", t>> \in Range(loadingTasks)
       /\ cancelBackgroundLoading(<<"L1", t>>)

SpecTasks == LoaderInit /\ [][TasksNext]_vars

-----------------------------------------------------------------------------
(* The behaviours checked: one cache object under a moving clock *)

Init == LazyInit \/ OptInit

\* either cache, read while the clock moves
ReadNext == Tick \/ LazyReadNext \/ OptReadNext
SpecRead == Init /\ [][ReadNext]_vars

\* either cache, filled beyond its ceiling
EvictNext == Tick \/ LazyEvictNext \/ OptNext
SpecEvict == Init /\ [][EvictNext]_vars

-----------------------------------------------------------------------------
(* MemoryCache *)

\* an app as MemoryCache reads it: id, fileHash and the ids it depends on
MemApp(id, fileHash, dependencies) ==
  [id |-> id, fileHash |-> fileHash, dependencies |-> dependencies]

MemApps == {MemApp("a", "H1", <<>>), MemApp("a", "H2", <<"b">>),
            MemApp("b", "H1", <<"a">>), MemApp("b", "H2", <<"c", "a">>)}

\* the app ids a caller may ask about: cached ones and one never cached
MemAppIds == {"a", "b", "c"}

\* what get finds at filePath, with Date.now() = now
MemPreOf(filePath, currentFileHash) ==
  LET e == mcache[filePath]
  IN [present |-> e.present,
      expired |-> e.present /\ now - e.timestamp > mMaxAge,
      mismatch |-> e.present /\ e.fileHash # currentFileHash]

\* a get that leaves the entry it rejects where it is
KeepProperty(cache, filePath) == cache

\* delete this.cache[filePath]
DeleteProperty(cache, filePath) == [cache EXCEPT ![filePath] = NoEntry]

\* MemoryCache.set
memorySet(filePath, app) ==
  /\ component = "mem"
  /\ mcache' = [mcache EXCEPT ![filePath] =
                  [present |-> TRUE, data |-> app, timestamp |-> now,
                   fileHash |-> app.fileHash]]
  /\ morder' = AppendNew(morder, filePath)
  /\ ret' = RetRec("set", filePath, app.fileHash, NoKey, Null, NoPre, <<>>)
  /\ UNCHANGED <<component, loaderVars, indexVars, now, lazyVars, optVars, mMaxAge>>

\* MemoryCache.get
memoryGet(filePath, currentFileHash) ==
  /\ component = "mem"
  /\ LET entry == mcache[filePath]
         pre == MemPreOf(filePath, currentFileHash)
     IN IF ~entry.present
        THEN /\ ret' = RetRec("get", filePath, currentFileHash, NoKey, Null,
                              pre, <<>>)
             /\ UNCHANGED <<mcache, morder>>
        ELSE IF now - entry.timestamp > mMaxAge
                \/ entry.fileHash # currentFileHash
        THEN /\ mcache' = DeleteProperty(mcache, filePath)
             /\ morder' = RemoveFromSeq(morder, filePath)
             /\ ret' = RetRec("get", filePath, currentFileHash, NoKey, Null,
                              pre, <<>>)
        ELSE /\ ret' = RetRec("get", filePath, currentFileHash, NoKey,
                              AppValue(entry.data), pre, <<>>)
             /\ UNCHANGED <<mcache, morder>>
  /\ UNCHANGED <<component, loaderVars, indexVars, now, lazyVars, optVars, mMaxAge>>

\* MemoryCache.delete
memoryDelete(filePath) ==
  /\ component = "mem"
  /\ mcache' = [mcache EXCEPT ![filePath] = NoEntry]
  /\ morder' = RemoveFromSeq(morder, filePath)
  /\ ret' = RetRec("delete", filePath, "", NoKey,
                   BoolValue(mcache[filePath].present), NoPre, <<>>)
  /\ UNCHANGED <<component, loaderVars, indexVars, now, lazyVars, optVars, mMaxAge>>

\* MemoryCache.setMaxAge
setMaxAge(maxAgeMinutes) ==
  /\ component = "mem"
  /\ mMaxAge' = maxAgeMinutes
  /\ ret' = RetRec("setMaxAge", "", "", NoKey, Null, NoPre, <<>>)
  /\ UNCHANGED <<component, loaderVars, indexVars, now, lazyVars, optVars, mcache,
                 morder>>

\* getValidCachedApps with Date.now() = t: expired entries are deleted, and
\* the apps of the others are listed in property order
getValidCachedApps(cache, order, t) ==
  LET kept == SelectSeq(order, LAMBDA p : ~(t - cache[p].timestamp > mMaxAge))
  IN [cache |-> [p \in Locators |-> IF p \in Range(kept) THEN cache[p]
                                     ELSE NoEntry],
      order |-> kept,
      apps |-> [i \in DOMAIN kept |-> cache[kept[i]].data]]

\* findAppById on the list getValidCachedApps returns: Array.prototype.find
findAppById(validApps, appId) ==
  LET found == SelectSeq(validApps, LAMBDA app : app.id = appId)
  IN IF found = <<>> THEN Null ELSE AppValue(Head(found))

\* findAppsDependingOn on the list getValidCachedApps returns
findAppsDependingOn(validApps, targetAppId) ==
  SelectSeq(validApps, LAMBDA app : targetAppId \in Range(app.dependencies))

\* collectDependencies of getDependencyTree; acc holds the sets visited and
\* dependencies, the latter in insertion order
RECURSIVE collectDependencies(_, _, _)
RECURSIVE CollectEachDependency(_, _, _)
collectDependencies(validApps, currentAppId, acc) ==
  IF currentAppId \in acc.visited THEN acc
  ELSE LET seen == [acc EXCEPT !.visited = @ \cup {currentAppId}]
           currentApp == findAppById(validApps, currentAppId)
       IN IF currentApp = Null THEN seen
          ELSE CollectEachDependency(validApps, currentApp.app.dependencies, seen)

CollectEachDependency(validApps, deps, acc) ==
  IF deps = <<>> THEN acc
  ELSE CollectEachDependency(
         validApps, Tail(deps),
         collectDependencies(validApps, Head(deps),
                             [acc EXCEPT !.collected = AppendNew(@, Head(deps))]))

\* collectDependents of getReverseDependencyTree
RECURSIVE collectDependents(_, _, _)
RECURSIVE CollectEachDependent(_, _, _)
collectDependents(validApps, targetAppId, acc) ==
  IF targetAppId \in acc.visited THEN acc
  ELSE CollectEachDependent(validApps,
                            findAppsDependingOn(validApps, targetAppId),
                            [acc EXCEPT !.visited = @ \cup {targetAppId}])

CollectEachDependent(validApps, dependentApps, acc) ==
  IF dependentApps = <<>> THEN acc
  ELSE CollectEachDependent(
         validApps, Tail(dependentApps),
         collectDependents(validApps, Head(dependentApps).id,
                           [acc EXCEPT !.collected =
                              AppendNew(@, Head(dependentApps).id)]))

NothingCollected == [visited |-> {}, collected |-> <<>>]

\* MemoryCache.getDependencyTree; every findAppById of the call reads the
\* clock at the same value, so the entries it deletes are those the first
\* one deletes
getDependencyTree(appId) ==
  /\ component = "mem"
  /\ LET valid == getValidCachedApps(mcache, morder, now)
     IN /\ mcache' = valid.cache
        /\ morder' = valid.order
        /\ ret' = RetRec("getDependencyTree", "", "", <<appId, 0, "">>,
                         ListValue(
                           IF findAppById(valid.apps, appId) = Null THEN <<>>
                           ELSE collectDependencies(valid.apps, appId,
                                                    NothingCollected).collected),
                         NoPre, <<>>)
  /\ UNCHANGED <<component, loaderVars, indexVars, now, lazyVars, optVars, mMaxAge>>

\* MemoryCache.getReverseDependencyTree
getReverseDependencyTree(appId) ==
  /\ component = "mem"
  /\ LET valid == getValidCachedApps(mcache, morder, now)
     IN /\ mcache' = valid.cache
        /\ morder' = valid.order
        /\ ret' = RetRec("getReverseDependencyTree", "", "", <<appId, 0, "">>,
                         ListValue(collectDependents(valid.apps, appId,
                                                     NothingCollected).collected),
                         NoPre, <<>>)
  /\ UNCHANGED <<component, loaderVars, indexVars, now, lazyVars, optVars, mMaxAge>>

MemInit ==
  /\ component = "mem"
  /\ OptIdle
  /\ IndexIdle
  /\ LoaderIdle
  /\ MemIdle
  /\ now = 0
  /\ heap = [i \in EntryIds |-> NoEntry]
  /\ lcache = [l \in Locators |-> 0]
  /\ lorder = <<>>
  /\ accessLog = [hits |-> 0, misses |-> 0]
  /\ reqs = <<>>
  /\ ret = NoRet

MemNext ==
  \/ Tick
  \/ \E filePath \in Locators, app \in MemApps : memorySet(filePath, app)
  \/ \E filePath \in Locators, h \in Hashes : memoryGet(filePath, h)
  \/ \E filePath \in Locators : memoryDelete(filePath)
  \/ \E m \in {0, MemMaxAge} : setMaxAge(m)
  \/ \E appId \in MemAppIds : getDependencyTree(appId)
  \/ \E appId \in MemAppIds : getReverseDependencyTree(appId)

SpecMem == MemInit /\ [][MemNext]_vars

-----------------------------------------------------------------------------
(* Validity of entries: hash and age *)

\* C1: a getAppMetadata whose hash differs from the hash the entry was
\* admitted with returns null and removes the entry from the cache.
C1_MismatchPurges ==
  (ret.op = "getAppMetadata" /\ ret.pre.present /\ ret.pre.mismatch)
    => (ret.val = Null /\ lcache[ret.path] = 0)

\* the operations that read an entry, and what each returns for no entry
ReadOps == {"getAppMetadata", "has", "loadObject", "loadObjectsByType",
            "getObjectMetadata", "getLoadingStats", "getApp"}

AbsentValue(op) ==
  CASE op = "has" -> BoolValue(FALSE)
    [] op \in {"loadObjectsByType", "getObjectMetadata"} -> ListValue(<<>>)
    [] OTHER -> Null

\* C2: every read of an entry older than maxAge returns what it returns for
\* a missing entry (null, false or an empty list), whatever hash is supplied.
C2_ExpiredIsAbsent ==
  (ret.op \in ReadOps /\ ret.pre.expired) => ret.val = AbsentValue(ret.op)

\* a loadObject with the stored hash found the entry expired
C2_Witness ==
  /\ ret.op = "loadObject"
  /\ ret.pre.expired
  /\ ~ret.pre.mismatch
  /\ ret.val = Null

-----------------------------------------------------------------------------
(* Materialization on demand *)

\* the calls of parseObjectAtOffset for k on the parser of the entry stored
\* at filePath
Derivations(filePath, k) ==
  LET e == LEntry(filePath)
  IN IF e.present /\ k \in DOMAIN e.parser.derived THEN e.parser.derived[k]
     ELSE 0

\* k is a key of the index of the entry stored at filePath
InIndex(filePath, k) ==
  LEntry(filePath).present /\ k \in Range(LEntry(filePath).parser.keyOrder)

\* a step that is a loadObject call with the arguments of the loadObject
\* call that has just returned from a valid entry
SecondLoadObject ==
  /\ ret.op = "loadObject"
  /\ ret.ref # 0
  /\ ret'.op \in {"loadObject", "suspended"}
  /\ Len(reqs') >= Len(reqs)
  /\ ret'.path = ret.path
  /\ ret'.hash = ret.hash
  /\ ret'.key = ret.key

\* the call returned at once, with the value of the call before, as a hit
\* and without a derivation
ServedFromObjectCache ==
  /\ ret'.op = "loadObject"
  /\ ret'.val = ret.val
  /\ accessLog' = Hit
  /\ reqs' = reqs
  /\ Derivations(ret.path, ret.key)' = Derivations(ret.path, ret.key)

\* C4 (as stated): for any key, the second of two successive loadObject calls
\* on a valid container returns the value of the first, is counted as a hit
\* and leaves the derivation count of the key at 1.
C4_AnyKeyIdempotent ==
  [][SecondLoadObject =>
       (ServedFromObjectCache /\ Derivations(ret.path, ret.key)' = 1)]_vars

\* C4 (amended): for a key of the container's index, when the entry the first
\* call worked on is still the one stored, the second of two successive
\* loadObject calls returns the value of the first, is counted as a hit and
\* derives nothing.
C4_IndexedKeyIdempotent ==
  [][(/\ SecondLoadObject
      /\ InIndex(ret.path, ret.key)
      /\ ret.ref = lcache[ret.path]) => ServedFromObjectCache]_vars

\* a second loadObject was served from the objectCache after one derivation
C4_Witness ==
  /\ ret.op = "loadObject"
  /\ ret.ref # 0
  /\ ret.val = EmptyObject
  /\ accessLog = [hits |-> 1, misses |-> 1]
  /\ Derivations(ret.path, ret.key) = 1

-----------------------------------------------------------------------------
(* Eviction *)

\* the footprint getCacheStats would report now
LazyUsage == calculateMemoryUsage(heap, lcache, lorder)

\* C3: after every setLazy either the estimated footprint is within the
\* ceiling or at most one entry remains in the cache.
C3_EvictionConvergence ==
  ret.op = "setLazy" => (LazyUsage <= LazyMaxMemoryMB \/ Len(lorder) <= 1)

\* the last call ran an eviction by recency
LRUEviction ==
  \/ ret.op = "setLazy"
  \/ ret.op \in {"setApp", "setObjects"} /\ ocfg.strategy = "lru"

\* C8: every entry removed by an eviction by recency had, when it was
\* removed, the least lastAccessed of the entries then present.
C8_OldestEvictedFirst ==
  LRUEviction =>
    \A i \in DOMAIN ret.victims :
      ret.victims[i].lastAccessed = ret.victims[i].oldest

\* setLazy evicted an entry and kept one accessed later
C8_Witness ==
  /\ ret.op = "setLazy"
  /\ \E i \in DOMAIN ret.victims, j \in DOMAIN lorder :
       ret.victims[i].lastAccessed < LEntry(lorder[j]).lastAccessed

\* the victim v of evictLargest is still stored
StillStored(v) ==
  IF v.partition = "apps" THEN oapps[v.key[1]].present
  ELSE \E j \in DOMAIN parts[v.partition] : parts[v.partition][j].key = v.key

\* C9: every entry the size-based strategy selects as a victim, largest
\* first, is removed from the store.
C9_VictimsRemoved ==
  (ret.op \in {"setApp", "setObjects"} /\ ocfg.strategy = "size-based")
    => \A i \in DOMAIN ret.victims : ~StillStored(ret.victims[i])

\* the footprint getMemoryStats would report now
OptUsage == totalMemoryMB(oapps, oorder, parts)

\* C10: after every setApp and setObjects, under every strategy, either the
\* footprint is within the ceiling or the app table and all partitions are
\* empty.
C10_WithinCeilingOrEmpty ==
  ret.op \in {"setApp", "setObjects"} =>
    \/ OptUsage <= OptMaxMemoryMB
    \/ (oorder = <<>> /\ \A p \in Range(PartitionNames) : parts[p] = <<>>)

-----------------------------------------------------------------------------
(* ObjectIndex: the indexes agree *)

SecondaryIndexes == {"typeIndex", "nameIndex", "appIndex", "keywordIndex",
                     "dependencyIndex"}

\* the key was made by createObjectKey for the app appId
KeyOfApp(key, appId) ==
  /\ Len(key) > Len(appId)
  /\ SubSeq(key, 1, Len(appId) + 1) = appId \o <<":">>

\* every key any index holds
AllIndexedKeys ==
  {oix.index[j].key : j \in DOMAIN oix.index}
  \cup UNION {UNION {oix[x][b] : b \in DOMAIN oix[x]} : x \in SecondaryIndexes}

\* C5: after removeApp(C.id) neither the primary map nor any of the five
\* secondary indexes holds a key of C, and no secondary index has an empty
\* bucket.
C5_RetractLeavesNothing ==
  ret.op = "removeApp" =>
    /\ \A key \in AllIndexedKeys : ~KeyOfApp(key, ret.appId)
    /\ \A x \in SecondaryIndexes : \A b \in DOMAIN oix[x] : oix[x][b] # {}

\* removeApp took the entries of an indexed app out of buckets it shared
\* with an app that stays indexed
C5_Witness ==
  /\ ret.op = "removeApp"
  /\ ret.result > 0
  /\ Len(oix.index) > 0
  /\ toLowerCaseChars(MetaAb.name) \in DOMAIN oix.nameIndex

\* the entries of the primary map
IndexedEntries == {oix.index[j].data : j \in DOMAIN oix.index}

\* entry satisfies every dimension the filter has
NaiveMatch(entry, filter) ==
  /\ filter.appIds = <<>> \/ entry.appId \in Range(filter.appIds)
  /\ filter.objectTypes = <<>> \/ entry.objectType \in Range(filter.objectTypes)
  /\ \/ filter.objectNames = <<>>
     \/ \E n \in Range(filter.objectNames) :
          toLowerCaseChars(n) = toLowerCaseChars(entry.objectName)
  /\ \/ filter.keywords = <<>>
     \/ \E w \in Range(filter.keywords), k \in Range(entry.keywords) :
          toLowerCaseChars(w) = toLowerCaseChars(k)
  /\ filter.objectIds = <<>> \/ entry.objectId \in Range(filter.objectIds)
  /\ filter.namespaces = <<>> \/ entry.namespace \in Range(filter.namespaces)
  /\ filter.minId = UndefinedId \/ entry.objectId >= filter.minId
  /\ filter.maxId = UndefinedId \/ entry.objectId <= filter.maxId
  /\ \A p \in Range(filter.properties) : p \in Range(entry.properties)

\* C6: search(F) returns exactly the indexed entries that satisfy every
\* present dimension of F, each of them once.
C6_SearchIsNaiveScan ==
  ret.op = "search" =>
    /\ Range(ret.result) = {e \in IndexedEntries : NaiveMatch(e, ret.filter)}
    /\ Len(ret.result) = Cardinality(Range(ret.result))

\* a search with two dimensions kept some of the indexed entries
C6_Witness ==
  /\ ret.op = "search"
  /\ ret.filter.objectNames # <<>>
  /\ ret.filter.objectIds # <<>>
  /\ Len(ret.result) > 0
  /\ Len(ret.result) < Len(oix.index)

\* the buckets an entry belongs in, per secondary index
BucketsFor(x, entry) ==
  CASE x = "typeIndex" -> {entry.objectType}
    [] x = "nameIndex" -> {toLowerCaseChars(entry.objectName)}
    [] x = "appIndex" -> {entry.appId}
    [] x = "keywordIndex" -> Range(LowerEach(entry.keywords))
    [] x = "dependencyIndex" -> Range(entry.dependencies)

\* C7: a key is in the primary map exactly when it is in the type, name,
\* app and keyword buckets of its entry, and no bucket holds any other key.
C7_IndexesConsistent ==
  \A x \in SecondaryIndexes :
    /\ \A j \in DOMAIN oix.index : \A b \in BucketsFor(x, oix.index[j].data) :
         b \in DOMAIN oix[x] /\ oix.index[j].key \in oix[x][b]
    /\ \A b \in DOMAIN oix[x] : \A key \in oix[x][b] :
         /\ IndexGet(oix, key) # Null
         /\ b \in BucketsFor(x, IndexGet(oix, key))

\* removeApp ran while two indexApp calls were suspended, and entries remain
C7_Witness ==
  /\ ret.op = "removeApp"
  /\ ret.result > 0
  /\ Len(indexing) = 2
  /\ Len(oix.index) > 0

-----------------------------------------------------------------------------
(* Eviction by frequency *)

\* C11: every app entry removed by an eviction by frequency had, when it was
\* removed, the least accessCount of the app entries then present.
C11_LeastUsedEvictedFirst ==
  (ret.op \in {"setApp", "setObjects"} /\ ocfg.strategy = "lfu") =>
    \A i \in DOMAIN ret.victims :
      ret.victims[i].accessCount = ret.victims[i].least

\* an eviction by frequency removed an entry and kept one used more often
C11_Witness ==
  /\ ret.op \in {"setApp", "setObjects"}
  /\ ocfg.strategy = "lfu"
  /\ \E i \in DOMAIN ret.victims, j \in DOMAIN oorder :
       ret.victims[i].accessCount < oapps[oorder[j]].accessCount

-----------------------------------------------------------------------------
(* Stale entries of LazyMemoryCache *)

\* the reads of LazyMemoryCache that are to purge a stale entry
PurgingReads == {"getAppMetadata", "loadObject", "loadObjectsByType",
                 "getObjectMetadata"}

\* C12: a read of a LazyMemoryCache entry older than maxAge returns what it
\* returns for a missing entry and leaves no entry stored at that path.
C12_ExpiredPurged ==
  (ret.op \in PurgingReads /\ ret.pre.present /\ ret.pre.expired)
    => (ret.val = AbsentValue(ret.op) /\ lcache[ret.path] = 0)

-----------------------------------------------------------------------------
(* ProgressiveAppLoader: cancellation, priority, completion *)

\* C13: once cancelBackgroundLoading has taken a task off the registry, no
\* materialization request is issued for that task any more.
C13_NoRequestAfterCancel ==
  \A p \in DOMAIN history : \A q \in DOMAIN history :
    (p < q /\ history[p].kind = "cancelled" /\ history[q].id = history[p].id)
      => history[q].kind # "request"

\* the children of the container at filePath, as its indexer lists them
ChildrenOf(filePath) == buildObjectIndex(FileOf(filePath).symbolsJson).keyOrder

\* the load id had child k materialized before position q of history
MaterializedBefore(id, k, q) ==
  \E p \in 1 .. (q - 1) :
    /\ history[p].kind = "settled"
    /\ history[p].id = id
    /\ history[p].key = k
    /\ history[p].val # Null

\* C14: when a load requests a child of a category outside
\* priorityObjectTypes, every child of the container in a priority category
\* has been materialized by that load.
C14_PriorityFirst ==
  \A q \in DOMAIN history :
    (/\ history[q].kind = "request"
     /\ history[q].key[1] \notin history[q].options.priorityObjectTypes)
      => \A k \in Range(ChildrenOf(history[q].id[1])) :
           k[1] \in history[q].options.priorityObjectTypes
             => MaterializedBefore(history[q].id, k, q)

\* C15: when loadAppProgressive resolves with backgroundLoadingEnabled =
\* false, getLoadingStats of the container reports loaded = total.
C15_SyncLoadsEverything ==
  (ret.op = "loadAppProgressive" /\ ~ret.options.backgroundLoadingEnabled)
    => (ret.stats # Null /\ ret.stats.loaded = ret.stats.total)

-----------------------------------------------------------------------------
(* MemoryOptimizedCache: the partitions *)

\* the last call stored a list under (appId, objectType) without any
\* eviction, and this step reads that key
ReadAfterWrite ==
  /\ ret.op = "setObjects"
  /\ ret.victims = <<>>
  /\ OptUsage <= OptMaxMemoryMB
  /\ ret'.op = "getObjects"
  /\ ret'.path = ret.path
  /\ ret'.key = ret.key

\* (appId, objectType) is a key of the partition of objectType
Stored(appId, objectType) ==
  \E j \in DOMAIN parts[getPartitionForType(objectType)] :
    parts[getPartitionForType(objectType)][j].key = <<appId, objectType>>

\* C16: getObjects(c, t) returns null while nothing is stored under (c, t),
\* and right after a setObjects(c, t, X) that evicted nothing it returns a
\* list equal to X, with or without compression.
C16_RoundTrip ==
  [][/\ (ret'.op = "getObjects" /\ ~Stored(ret'.path, ret'.key[1]))
          => ret'.val = Null
     /\ ReadAfterWrite => ret'.val = ret.val]_vars

-----------------------------------------------------------------------------
(* Materialization failures *)

\* this step returns from a loadObject call on a valid entry whose index has
\* no descriptor for the key asked for
FailedLoadObject ==
  /\ ret'.op = "loadObject"
  /\ ret'.ref # 0
  /\ ret'.key \notin Range(heap[ret'.ref].parser.keyOrder)

\* C17: a loadObject call for a key the container's index cannot materialize
\* returns null, and leaves every stored entry as it was: its objectCache keeps
\* the children materialized so far and its index keeps every descriptor.
C17_FailureIsLocal ==
  [][FailedLoadObject =>
       /\ ret'.val = Null
       /\ lcache' = lcache
       /\ \A filePath \in Locators : LEntry(filePath)' = LEntry(filePath)]_vars

\* a loadObject call for a key of no descriptor returned null from an entry
\* that still holds a child materialized before
C17_Witness ==
  /\ ret.op = "loadObject"
  /\ ret.ref # 0
  /\ ret.ref = lcache[ret.path]
  /\ ret.val = Null
  /\ ~InIndex(ret.path, ret.key)
  /\ \E k \in Range(LEntry(ret.path).parser.keyOrder) :
       /\ k \in DOMAIN LEntry(ret.path).objectCache
       /\ LEntry(ret.path).objectCache[k] = EmptyObject

-----------------------------------------------------------------------------
(* Malformed documents *)

\* this step is a setLazy call handing over the malformed document
SetLazyMalformed(filePath, app) ==
  /\ ret'.op = "setLazy"
  /\ ret'.path = filePath
  /\ setLazy(filePath, app, DocMalformed, now)

-----------------------------------------------------------------------------
(* The parser's own materialization *)

\* the values StreamingSymbolParser.loadObject has returned for k on the
\* parser of the entry object e: what LazyMemoryCache.loadObject stored under
\* k, and the element for k of the list stored by loadObjectsByType
ParserReturned(e, k) ==
  LET keys == KeysOfType(e.parser, k[1])
      all == AllKey(k[1])
  IN (IF k \in DOMAIN e.objectCache THEN {e.objectCache[k]} ELSE {})
     \cup (IF all \in DOMAIN e.objectCache
           THEN {e.objectCache[all].items[j] :
                   j \in {x \in DOMAIN keys : keys[x] = k}}
           ELSE {})

\* C19: for every key of an index, all the values StreamingSymbolParser
\* .loadObject has returned for it, directly or through loadObjectsByType,
\* are equal to the first.
C19_ParserIdempotent ==
  \A filePath \in Locators :
    LEntry(filePath).present =>
      \A k \in Range(LEntry(filePath).parser.keyOrder) :
        Cardinality(ParserReturned(LEntry(filePath), k)) <= 1

-----------------------------------------------------------------------------
(* Admission followed by a read *)

\* the last call admitted a container, and this step reads its locator with
\* its hash at a time when nothing admitted can be older than maxAge
ReadAfterAdmit ==
  /\ \/ ret.op = "setLazy" /\ ret'.op = "getAppMetadata" /\ now' <= LazyMaxAge
     \/ ret.op = "setApp" /\ ret'.op = "getApp" /\ now' <= OptMaxAge
  /\ ret'.path = ret.path
  /\ ret'.hash = ret.hash

\* C20: a getAppMetadata / getApp(L, H) that follows the setLazy / setApp
\* admitting hash H at locator L, within the TTL, returns the container's
\* metadata and never null.
C20_AdmitThenRead ==
  [][ReadAfterAdmit => ret'.val # Null]_vars

-----------------------------------------------------------------------------
(* The expiry sweep *)

\* the entry a read finds stored at filePath, in either cache
StoredEntry(filePath) ==
  IF component = "lazy" THEN LEntry(filePath) ELSE oapps[filePath]

\* a read with the entry's own hash treats it as expired
ReadAsExpired(filePath) ==
  /\ StoredEntry(filePath).present
  /\ IF component = "lazy"
     THEN ~isEntryValid(LEntry(filePath), LEntry(filePath).fileHash, now)
     ELSE ~optIsEntryValid(oapps[filePath].timestamp, oapps[filePath].fileHash,
                           oapps[filePath].fileHash, now)

\* C21: cleanup, in either cache and whatever the footprint, removes exactly
\* the entries that reads treat as expired, leaves every other entry as it
\* was, and returns the number of entries it removed.
C21_SweepRemovesExpired ==
  [][(ret'.op = "cleanup" /\ now' = now) =>
       /\ \A filePath \in Locators :
            StoredEntry(filePath)' =
              IF ReadAsExpired(filePath) THEN NoEntry
              ELSE StoredEntry(filePath)
       /\ ret'.val.n =
            Cardinality({filePath \in Locators : ReadAsExpired(filePath)})
       /\ parts' = parts]_vars

\* a cleanup of a cache over its ceiling removed one entry and kept another
C21_Witness ==
  /\ ret.op = "cleanup"
  /\ ret.val.n = 1
  /\ \E filePath \in Locators :
       /\ StoredEntry(filePath).present
       /\ ~ReadAsExpired(filePath)
  /\ \/ component = "lazy" /\ LazyUsage > LazyMaxMemoryMB
     \/ component = "opt" /\ OptUsage > OptMaxMemoryMB

-----------------------------------------------------------------------------
(* Access bookkeeping *)

\* this step is a getAppMetadata or getApp call
MetadataRead ==
  /\ ret'.op \in {"getAppMetadata", "getApp"}
  /\ now' = now

\* C22: a getAppMetadata / getApp that returns the container adds exactly 1
\* to the accessCount of its entry and sets its lastAccessed to the current
\* time; one that returns null changes no entry.
C22_AccessBookkeeping ==
  [][MetadataRead =>
       \A filePath \in Locators :
         StoredEntry(filePath)' =
           IF ret'.val # Null /\ filePath = ret'.path
           THEN [StoredEntry(filePath) EXCEPT !.accessCount = @ + 1,
                                              !.lastAccessed = now]
           ELSE StoredEntry(filePath)]_vars

\* a read returned a container admitted earlier: its entry counts one access
\* and carries the time of the read
C22_Witness ==
  /\ ret.op \in {"getAppMetadata", "getApp"}
  /\ ret.val # Null
  /\ StoredEntry(ret.path).present
  /\ StoredEntry(ret.path).accessCount = 1
  /\ StoredEntry(ret.path).lastAccessed = now
  /\ StoredEntry(ret.path).timestamp < now

-----------------------------------------------------------------------------
(* The order of search results *)

\* a may stand before b: its objectType comes first, or the objectTypes are
\* the same and its objectId is smaller, or both are the same and its name
\* does not come after
MayPrecede(a, b) ==
  \/ localeCompare(a.objectType, b.objectType) < 0
  \/ /\ a.objectType = b.objectType
     /\ a.objectId < b.objectId
  \/ /\ a.objectType = b.objectType
     /\ a.objectId = b.objectId
     /\ localeCompare(a.objectName, b.objectName) <= 0

-----------------------------------------------------------------------------
(* Dependents *)

\* the children the loader hands out for app
ChildrenOfApp(app) == Range(WorkList(app, IndexedTypes))

-----------------------------------------------------------------------------
(* The descriptors of an index *)

\* C25: the index parseSymbolsProgressive builds holds one descriptor per
\* (objectType, objectId, name) key, and its totalObjects is the number of
\* descriptors it holds.
C25_TotalIsIndexSize ==
  \A filePath \in Locators :
    LEntry(filePath).present =>
      LET idx == LEntry(filePath).parser
      IN /\ idx.totalObjects = Len(idx.keyOrder)
         /\ Cardinality(Range(idx.keyOrder)) = Len(idx.keyOrder)

-----------------------------------------------------------------------------
(* MemoryCache: reads *)

\* this step is a get call
MemoryRead == ret'.op = "get" /\ now' = now

\* C26: get(path, hash) returns the stored app exactly when an entry exists
\* for path, is not older than maxAge and carries that hash; when an entry
\* exists and is expired or of another hash, get returns null and the entry
\* is gone afterwards.
C26_GetValidOrPurge ==
  [][MemoryRead =>
       LET e == mcache[ret'.path]
           valid == /\ e.present
                    /\ now - e.timestamp <= mMaxAge
                    /\ e.fileHash = ret'.hash
       IN /\ valid => ret'.val = AppValue(e.data)
          /\ ~valid => ret'.val = Null
          /\ (e.present /\ ~valid) => ~mcache'[ret'.path].present]_vars

\* a get with another hash than the stored one returned null and removed an
\* entry that had not expired
C26_Witness ==
  /\ ret.op = "get"
  /\ ret.val = Null
  /\ ret.pre.present
  /\ ret.pre.mismatch
  /\ ~ret.pre.expired
  /\ ~mcache[ret.path].present
  /\ ret.path \notin Range(morder)

-----------------------------------------------------------------------------
(* Requests in flight at the same time *)

\* this step completes a loadObject call with a value, on an entry whose
\* objectCache already holds a value for the key: another request for the
\* key was in flight with it and stored first
SecondToStore ==
  /\ ret'.op = "loadObject"
  /\ ret'.ref # 0
  /\ Len(reqs') < Len(reqs)
  /\ ret'.key \in DOMAIN heap[ret'.ref].objectCache

\* C27: of two loadObject requests for one key in flight at once, the one
\* that completes second returns the value the first returned and stored, and
\* that value is the one left in the objectCache.
C27_ConcurrentSameValue ==
  [][SecondToStore =>
       /\ ret'.val = heap[ret'.ref].objectCache[ret'.key]
       /\ heap'[ret'.ref].objectCache[ret'.key] = ret'.val]_vars

\* the suspended call i reads the entry stored at its filePath
ReadInFlight(i) == reqs[i].ref # 0 /\ lcache[reqs[i].path] = reqs[i].ref

\* C28: while a loadObject or loadObjectsByType call on an entry is
\* suspended, setLazy of another filePath does not evict that entry.
C28_NoEvictionMidRead ==
  [][\A i \in DOMAIN reqs :
       (ReadInFlight(i) /\ ret'.op = "setLazy" /\ ret'.path # reqs[i].path
          /\ lcache' # lcache)
       => lcache'[reqs[i].path] = reqs[i].ref]_vars

\* C29: in the parser of every stored entry, loadedObjects is the number of
\* descriptors flagged loaded, and so is at most totalObjects.
C29_LoadedCounter ==
  \A l \in Locators :
    lcache[l] # 0 =>
      LET idx == heap[lcache[l]].parser
      IN /\ idx.loadedObjects = Cardinality(idx.loaded)
         /\ idx.loadedObjects <= idx.totalObjects

-----------------------------------------------------------------------------
(* Coverage of the index *)

\* the objectTypes of the typeMap of getObjectTypeFromPath
ProducedTypes == IndexedTypes \o <<TypeXmlPort, TypeQuery>>

\* the key of the descriptor is in the primary map and in the type, name and
\* app buckets it belongs in
Covered(ix, app, objectType, metadata) ==
  LET key == createObjectKey(app.id, objectType, metadata.objectId, metadata.name)
      name == toLowerCaseChars(metadata.name)
  IN /\ IndexGet(ix, key) # Null
     /\ objectType \in DOMAIN ix.typeIndex /\ key \in ix.typeIndex[objectType]
     /\ name \in DOMAIN ix.nameIndex /\ key \in ix.nameIndex[name]
     /\ app.id \in DOMAIN ix.appIndex /\ key \in ix.appIndex[app.id]

\* C30: when indexApp(app) has completed, every descriptor the loader hands
\* out for the app, of every objectType the parser produces, has its entry in
\* the primary map and in its type, name and app buckets.
C30_EveryDescriptorIndexed ==
  \A app \in IndexedApps :
    (ret.op = "indexApp" /\ ret.appId = app.id) =>
      \A item \in Range(WorkList(app, ProducedTypes)) :
        Covered(oix, app, item.objectType, item.metadata)

-----------------------------------------------------------------------------
(* ProgressiveAppLoader: the order of the reports *)

\* C31: of two progress reports of one loadingId, the later one has no
\* smaller percentage, and the earlier one is not the report of phase
\* 'complete'.
C31_ReportsOrdered ==
  \A p \in DOMAIN history : \A q \in DOMAIN history :
    (/\ p < q
     /\ history[p].kind = "progress"
     /\ history[q].kind = "progress"
     /\ history[p].id = history[q].id)
      => /\ history[p].percentage <= history[q].percentage
         /\ history[p].phase # "complete"

-----------------------------------------------------------------------------
(* Eviction only over the ceiling *)

\* the ceiling of the cache the last call was made on
CeilingOf(op) == IF op = "setLazy" THEN LazyMaxMemoryMB ELSE OptMaxMemoryMB

\* the partition entries other than the one setObjects wrote are as before
OtherDataKept ==
  \A p \in Range(PartitionNames) :
    \A j \in DOMAIN parts[p] :
      (ret'.op = "setObjects" /\ parts[p][j].key = <<ret'.path, ret'.key[1]>>)
        \/ (\E j2 \in DOMAIN parts'[p] : parts'[p][j2] = parts[p][j])

\* C32: every removal by setLazy, setApp and setObjects is made at a footprint
\* above the ceiling, the footprint after the insertion for the first one and
\* the footprint the removal before it left for the others; a call that
\* removes nothing leaves every other entry stored.
C32_EvictOnlyOverCeiling ==
  [][ret'.op \in {"setLazy", "setApp", "setObjects"} =>
       /\ \A i \in DOMAIN ret'.victims :
            ret'.victims[i].usage > CeilingOf(ret'.op)
       /\ ret'.victims = <<>> =>
            /\ \A l \in Locators \ {ret'.path} : lcache'[l] = lcache[l]
            /\ ret'.op = "setApp" =>
                 \A l \in Locators \ {ret'.path} : oapps'[l] = oapps[l]
            /\ ret'.op = "setObjects" => oapps' = oapps
            /\ ret'.op # "setLazy" => OtherDataKept]_vars

\* an admission within the ceiling kept the entry that was there, and one
\* over it removed entries until the footprint was within the ceiling
C32_Witness ==
  \/ /\ ret.op = "setLazy"
     /\ Len(ret.victims) = 1
     /\ Len(lorder) = 1
     /\ LazyUsage <= LazyMaxMemoryMB
  \/ /\ ret.op = "setApp"
     /\ ret.victims = <<>>
     /\ Len(oorder) = 2

-----------------------------------------------------------------------------
(* ObjectIndex: removeApp and the other apps *)

\* the entry at position j of the primary map of ix is in ix2 as it is in
\* ix: in the primary map and in every bucket of ix it was in
KeptIn(ix, ix2, j) ==
  LET key == ix.index[j].key
      entry == ix.index[j].data
  IN /\ IndexGet(ix2, key) = entry
     /\ \A x \in SecondaryIndexes : \A b \in BucketsFor(x, entry) :
          (b \in DOMAIN ix[x] /\ key \in ix[x][b])
            => (b \in DOMAIN ix2[x] /\ key \in ix2[x][b])

\* C33: removeApp(appId) leaves every entry of every other app in the
\* primary map and in every bucket it was in, and changes nothing when no
\* entry of appId is indexed.
C33_RetractIsScoped ==
  [][ret'.op = "removeApp" =>
       /\ \A j \in DOMAIN oix.index :
            oix.index[j].data.appId # ret'.appId => KeptIn(oix, oix', j)
       /\ ret'.appId \notin DOMAIN oix.appIndex => oix' = oix]_vars

\* removeApp took out the entries of one app while an entry of another app,
\* which shared its name bucket with one of them, stays
C33_Witness ==
  /\ ret.op = "removeApp"
  /\ ret.appId = AppX.id
  /\ ret.result > 0
  /\ \E j \in DOMAIN oix.index :
       /\ oix.index[j].data.appId = AppY.id
       /\ toLowerCaseChars(oix.index[j].data.objectName)
            = toLowerCaseChars(MetaAb.name)

-----------------------------------------------------------------------------
(* Admission over an entry of another hash *)

\* this step is a setLazy at a filePath that holds an entry of another hash
Readmitted ==
  /\ ret'.op = "setLazy"
  /\ lcache[ret'.path] # 0
  /\ heap[lcache[ret'.path]].fileHash # ret'.hash
  /\ lcache'[ret'.path] # lcache[ret'.path]

\* C34: after setLazy(L, app) over an entry of another hash, one entry is
\* stored at L; it is valid for the hash of app and not for the hash of the
\* entry replaced, its objectCache is empty, its accessCount is 0 and no
\* descriptor of its parser is loaded.
C34_ReadmissionReplaces ==
  [][Readmitted =>
       /\ lcache'[ret'.path] # 0
       /\ Len(SelectSeq(lorder', LAMBDA l : l = ret'.path)) = 1
       /\ LET e == heap'[lcache'[ret'.path]]
          IN /\ isEntryValid(e, ret'.hash, now')
             /\ ~isEntryValid(e, heap[lcache[ret'.path]].fileHash, now')
             /\ e.objectCache = <<>>
             /\ e.accessCount = 0
             /\ e.parser.loaded = {}
             /\ e.parser.loadedObjects = 0]_vars

-----------------------------------------------------------------------------
(* ProgressiveAppLoader: the registry of background tasks *)

\* cancelBackgroundLoading has taken the task id off the registry
Cancelled(id) ==
  \E p \in DOMAIN history : history[p].kind = "cancelled" /\ history[p].id = id

\* C35: a background task that has not finished its last batch and was not
\* cancelled is in the registry of active tasks.
C35_ListedWhileRunning ==
  \A i \in DOMAIN loads :
    (loads[i].returned /\ ~Cancelled(loads[i].id))
      => loads[i].id \in Range(loadingTasks)

-----------------------------------------------------------------------------
(* MemoryCache: the dependency trees *)

\* a cached app that has not expired has the id x and depends on y
DependsOn(x, y) ==
  \E p \in Locators :
    /\ mcache[p].present
    /\ ~(now - mcache[p].timestamp > mMaxAge)
    /\ mcache[p].data.id = x
    /\ y \in Range(mcache[p].data.dependencies)

\* the ids reached from the ids of S by one or more edges; forward is
\* DependsOn, backward its converse
RECURSIVE Closure(_, _, _)
Closure(S, reached, forward) ==
  LET next == {y \in MemAppIds :
                 \E x \in S \cup reached :
                   IF forward THEN DependsOn(x, y) ELSE DependsOn(y, x)}
  IN IF next \subseteq reached THEN reached
     ELSE Closure(S, reached \cup next, forward)

\* C36: getDependencyTree(appId) returns, each once, the ids reached from
\* appId by one or more dependency edges of the apps cached and not expired,
\* and getReverseDependencyTree(appId) those reached by the reversed edges.
C36_TreesAreReachableSets ==
  [][(ret'.op \in {"getDependencyTree", "getReverseDependencyTree"}
        /\ now' = now) =>
       /\ Range(ret'.val.items)
            = Closure({ret'.key[1]}, {}, ret'.op = "getDependencyTree")
       /\ Len(ret'.val.items) = Cardinality(Range(ret'.val.items))]_vars

-----------------------------------------------------------------------------
(* LazyMemoryCache: the statistics *)

\* C37: getCacheStats reports loadedObjects <= totalObjects, totalApps equal
\* to the number of entries stored, and cacheHitRate equal to the percentage
\* of hits among the load requests counted (0 when there were none).
C37_StatsConsistent ==
  ret.op = "getCacheStats" =>
    /\ ret.val.loadedObjects <= ret.val.totalObjects
    /\ ret.val.totalApps = Cardinality({l \in Locators : lcache[l] # 0})
    /\ ret.val.cacheHitRate = cacheHitRate(accessLog)

====
